---- MODULE Spec2Model ----
(***************************************************************************)
(* Action-resolution engine of world/dominion/plots/models.py:             *)
(* one PlotAction (the undertaking), its PlotActionAssistant rows, its     *)
(* resource ActionRequirement rows, the Plot it points to, and the         *)
(* participants' ledgers the engine debits and credits.                    *)
(***************************************************************************)
EXTENDS Integers, Sequences, FiniteSets, TLC

\* ------------------------------------------------------------------ bounds
NumAssistants == 5   \* participants that can be invited as assists
NumInvited    == 2   \* of them, the ones invited where resources are explored
NumTypes      == 2   \* resource types that requirements are added for
MaxValue      == 2   \* largest amount of one contribution / requirement
MaxRate       == 1   \* largest max_rate given to add_action_requirement
InitBalance   == 1   \* what every participant owns of every resource
MaxContrib    == 1   \* successful contributions explored in one behaviour
MaxReqAdds    == 1   \* add_action_requirement calls explored
MaxCancels    == 1   \* completed PlotAction.cancel calls explored
MaxFailures   == 1   \* ledger outages explored
NumUpdates    == 1   \* PlotUpdate rows an action can be published to
NumArmies     == 2   \* armies that orders can be sent to
MaxCap        == 5   \* largest max_points_* that staff set for a roll
MaxDivisor    == 3   \* largest *_divisor that staff set for a roll
MaxRoll       == 6   \* largest roll_value of a participant's sheet
NumRanks      == 1   \* CheckRank rows an action can be rolled against
NumEntities   == 2   \* ids of the entities of one kind a requirement can ask for

\* ------------------------------------------------------- program constants
DRAFT           == 0
NEEDS_PLAYER    == 1
NEEDS_GM        == 2
CANCELLED       == 3
PENDING_PUBLISH == 4
PUBLISHED       == 5

SILVER   == 0
MILITARY == 1
ECONOMIC == 2
SOCIAL   == 3
AP       == 4
CLUE       == 5
REVELATION == 6
SKILL_NODE == 7
SPELL      == 8
FORCES   == 9
ITEM       == 10
EVENT    == 11

CRISIS  == 0
GM_PLOT == 1

BASE_AP_COST    == 0
attending_limit == 5

RESOURCE_TYPES == {SILVER, MILITARY, ECONOMIC, SOCIAL, AP}

DESCRIPTION_TYPES == {EVENT, FORCES}

FK_TYPES == {CLUE, REVELATION, SKILL_NODE, SPELL, ITEM}

\* the requirement types of which an action has at most one row
KeyedByType == RESOURCE_TYPES \cup DESCRIPTION_TYPES

\* a requirement_type that add_action_requirement does not know
Unrecognised == 12

\* the clues, revelations, skill nodes, spells and items staff can ask for,
\* by id
Entities == 1..NumEntities

\* an ActionRequirement row of an action, named by its requirement_type and
\* by the id in its clue, revelation, skill_node, spell or item column
\* (0: the columns are all NULL)
RowOf(t, entity) == t + 12 * entity

requirement_type(row) == row % 12

entity_id(row) == row \div 12

\* the rows an action can have
Rows == KeyedByType \cup {RowOf(t, e) : t \in FK_TYPES, e \in Entities}

Armies  == 1..NumArmies
Updates == 1..NumUpdates

\* the five counters of AbstractPlayerAllocations, by attribute name
ResourceAttrs == {"silver", "military", "economic", "social", "action_points"}

\* r_type strings a caller passes for a resource, and the ones explored
AllResourceNames == << "ap", "silver", "military", "economic", "social" >>
ResourceNames ==
    {AllResourceNames[i] : i \in 1..(IF NumTypes < 5 THEN NumTypes ELSE 5)}

Owner        == 0
Assistants   == 1..NumAssistants
Participants == {Owner} \cup Assistants

\* the assistants invited where the resources are explored, and the owner
Invited      == 1..(IF NumInvited < NumAssistants THEN NumInvited ELSE NumAssistants)
Contributors == {Owner} \cup Invited

VARIABLES
    action,        \* the PlotAction row
    assists,       \* PlotActionAssistant rows, by participant
    requirements,  \* resource ActionRequirement rows of the action, by type
    plot,          \* the Plot the action points to
    prompted,      \* owner.ndb.action_submission_prompt == the action
    balance,       \* ledger: what each participant owns of each resource
    left,          \* calls still to be explored, per kind
    calls          \* add_required_resource calls in flight, by participant

vars == <<action, assists, requirements, plot, prompted, balance, left, calls>>

\* --------------------------------------------------------------- records
\* a PlotActionAssistant as created by invite(); exists = FALSE: no row
NoAssist ==
    [exists |-> FALSE, actions |-> FALSE, fields |-> FALSE,
     date_submitted |-> FALSE, editable |-> TRUE, attending |-> TRUE,
     silver |-> 0, military |-> 0, economic |-> 0, social |-> 0,
     action_points |-> 0, roll_value |-> 0]

NewAssist == [NoAssist EXCEPT !.exists = TRUE]

NoRequirement ==
    [exists |-> FALSE, total_required_amount |-> 0, max_rate |-> 0,
     weekly_total |-> 0, fulfilled_by |-> FALSE, rfr |-> 0,
     requirement_text |-> 0]

\* ------------------------------------------------------------------ sums
RECURSIVE SumSet(_, _)
SumSet(f, S) ==
    IF S = {} THEN 0
    ELSE LET x == CHOOSE y \in S : TRUE IN f[x] + SumSet(f, S \ {x})

\* assisting_actions.all(): the participants that have a row
assisting_actions(as) == {p \in DOMAIN as : as[p].exists}

\* fault: a sum that only counts the assists already submitted
SumAssists_submitted(as, attr) ==
    SumSet([p \in DOMAIN as |-> as[p][attr]],
           {p \in assisting_actions(as) : as[p].date_submitted})

\* sum(ob.<attr> for ob in self.assisting_actions.all())
SumAssists(as, attr) ==
    SumSet([p \in DOMAIN as |-> as[p][attr]], assisting_actions(as))

total_silver(a, as) == a.silver + SumAssists(as, "silver")

total_military(a, as) == a.military + SumAssists(as, "military")

total_economic(a, as) == a.economic + SumAssists(as, "economic")

total_social(a, as) == a.social + SumAssists(as, "social")

total_action_points(a, as) == a.action_points + SumAssists(as, "action_points")

\* ActionRequirement.total, for the requirement of type t
total(t, a, as) ==
    IF t = SILVER THEN total_silver(a, as)
    ELSE IF t = MILITARY THEN total_military(a, as)
    ELSE IF t = SOCIAL THEN total_social(a, as)
    ELSE IF t = ECONOMIC THEN total_economic(a, as)
    ELSE IF t = AP THEN total_action_points(a, as)
    ELSE -1

\* Orders.objects.filter(Q(action=...) | Q(assisting__action=...)).exists()
OrdersExist(a) == \E m \in Armies : a.orders[m] # "none"

\* fault: a requirement that wants more than its amount
check_requirement_met_strict(t, reqs, a, as) ==
    total(t, a, as) > reqs[t].total_required_amount

\* fault: whatever is not an event or forces is met by an amount
check_requirement_met_by_amount(t, reqs, a, as) ==
    IF t = EVENT THEN reqs[t].rfr # 0
    ELSE IF t = FORCES THEN OrdersExist(a)
    ELSE total(requirement_type(t), a, as) >= reqs[t].total_required_amount

\* ActionRequirement.check_requirement_met
check_requirement_met(t, reqs, a, as) ==
    IF entity_id(t) # 0 THEN reqs[t].fulfilled_by
    ELSE IF t = EVENT THEN reqs[t].rfr # 0
    ELSE IF t = FORCES THEN OrdersExist(a)
    ELSE total(t, a, as) >= reqs[t].total_required_amount

\* fault: a rate that may not be reached, only approached
check_value_exceeds_weekly_rate_reached(req, value) ==
    IF req.max_rate <= 0 THEN FALSE
    ELSE (req.weekly_total + value) >= req.max_rate

\* ActionRequirement.check_value_exceeds_weekly_rate
check_value_exceeds_weekly_rate(req, value) ==
    IF req.max_rate <= 0 THEN FALSE
    ELSE (req.weekly_total + value) > req.max_rate

\* ---------------------------------------------------------------- ledger
\* payCurrency / payResource / payEffortPoints: ok iff the balance covers it
CanPay(bal, p, attr, value) == bal[p][attr] >= value

Pay(bal, p, attr, value) == [bal EXCEPT ![p][attr] = @ - value]

\* one gain* call
Credit(bal, p, attr, amt) == [bal EXCEPT ![p][attr] = @ + amt]

\* ------------------------------------------------------------- validator
RECURSIVE FirstError(_)
FirstError(errs) ==
    IF errs = <<>> THEN "none"
    ELSE IF Head(errs) # "none" THEN Head(errs)
    ELSE FirstError(Tail(errs))

\* AbstractAction / PlotAction.check_incomplete_required_fields
check_incomplete_required_fields(rec) == ~rec.actions \/ ~rec.fields

\* PlotAction.can_submit_during_break (an assist passes its action's through)
can_submit_during_break(a) == a.status = NEEDS_PLAYER

\* AbstractAction.raise_submission_errors; brk is check_break()
Abstract_raise_submission_errors(rec, a, brk) ==
    IF check_incomplete_required_fields(rec) THEN "fields"
    ELSE IF brk /\ ~can_submit_during_break(a) THEN "break"
    ELSE "none"

\* fault: a plot that only refuses when it is marked resolved
Plot_raise_submission_errors_resolved(closed) ==
    IF closed = "resolved" THEN "resolved"
    ELSE "none"

\* Plot.raise_submission_errors; closed says whether the plot is marked
\* resolved ("resolved") or its end_date has passed ("expired") at this call
Plot_raise_submission_errors(closed) ==
    IF closed = "resolved" THEN "resolved"
    ELSE IF closed = "expired" THEN "deadline"
    ELSE "none"

\* the PlotUpdate rows of the last Episode; the other rows are older
CurrentUpdates == {1}

\* Q(beat__isnull=True) | Q(beat__episode=episode)
InEpisode(beat) == beat = 0 \/ beat \in CurrentUpdates

\* AbstractAction.check_org_busy: the org's actions of the episode that are
\* neither Draft nor Cancelled; the query does not leave out the action itself
check_org_busy(a, pl, others) ==
    IF pl.usage = CRISIS
    THEN IF ~a.org THEN "no org"
         ELSE IF \/ others = "submitted"
                 \/ (a.status \notin {DRAFT, CANCELLED} /\ InEpisode(a.beat))
              THEN "org busy"
              ELSE "none"
    ELSE "none"

\* PlotAction.attendees
attendees(a, as) ==
    {p \in {Owner} : a.actions /\ a.attending}
    \cup {p \in assisting_actions(as) : as[p].actions /\ as[p].attending}

\* AbstractAction.check_plot_overcrowd
check_plot_overcrowd(a, as) ==
    IF Cardinality(attendees(a, as)) > attending_limit /\ ~a.prefer_offscreen
    THEN "overcrowd"
    ELSE "none"

\* fault: the plot is asked whatever the status of the action
check_plot_errors_always(a, as, pl, env) ==
    FirstError(<<
        IF pl.exists THEN Plot_raise_submission_errors(env.plot) ELSE "none",
        IF pl.exists THEN check_org_busy(a, pl, env.others) ELSE "none",
        check_plot_overcrowd(a, as) >>)

\* AbstractAction.check_plot_errors
check_plot_errors(a, as, pl, env) ==
    FirstError(<<
        IF pl.exists /\ a.status # NEEDS_PLAYER
            THEN Plot_raise_submission_errors(env.plot) ELSE "none",
        IF pl.exists THEN check_org_busy(a, pl, env.others) ELSE "none",
        check_plot_overcrowd(a, as) >>)

\* PlotAction.check_requirement_errors
check_requirement_errors(reqs, a, as) ==
    IF \E t \in DOMAIN reqs :
           reqs[t].exists /\ ~check_requirement_met(t, reqs, a, as)
    THEN "requirements"
    ELSE "none"

\* PlotAction.check_action_against_maximum_allowed
check_action_against_maximum_allowed(a, others) ==
    IF a.free_action THEN "none"
    ELSE IF a.org
         THEN IF others # "none" THEN "max" ELSE "none"
         ELSE IF others = "submitted" THEN "max" ELSE "none"

\* PlotAction.get_unready_assisting_actions: the assists the warning names
get_unready_assisting_actions(a, as, brk) ==
    {p \in assisting_actions(as) :
        Abstract_raise_submission_errors(as[p], a, brk) # "none"}

\* fault: the warning is raised when the prompt was already sent
check_warning_prompt_sent_again(prm) == IF prm THEN "warning" ELSE "none"

\* PlotAction.check_warning_prompt_sent
check_warning_prompt_sent(prm) == IF ~prm THEN "warning" ELSE "none"

\* PlotAction.check_draft_errors
check_draft_errors(a, env, prm) ==
    IF a.status # DRAFT THEN "none"
    ELSE FirstError(<< check_action_against_maximum_allowed(a, env.others),
                       check_warning_prompt_sent(prm) >>)

\* PlotAction.raise_submission_errors: "none" or the rejection raised
PlotAction_raise_submission_errors(a, as, reqs, pl, prm, env) ==
    FirstError(<< Abstract_raise_submission_errors(a, a, env.brk),
                  check_plot_errors(a, as, pl, env),
                  check_requirement_errors(reqs, a, as),
                  check_draft_errors(a, env, prm) >>)

\* PlotAction.all_editable
all_editable(a, as) ==
    {p \in {Owner} : a.editable}
    \cup {p \in assisting_actions(as) : as[p].editable}

\* fault: a resubmit goes to review whoever can still edit
PlotAction_post_edit_always(a, as) ==
    LET a1 == IF a.status = NEEDS_PLAYER
              THEN [a EXCEPT !.status = NEEDS_GM] ELSE a
    IN  IF ~a1.org THEN [a1 EXCEPT !.action_per_episode = TRUE] ELSE a1

\* PlotAction.post_edit
PlotAction_post_edit(a, as) ==
    LET a1 == IF a.status = NEEDS_PLAYER /\ all_editable(a, as) = {}
              THEN [a EXCEPT !.status = NEEDS_GM] ELSE a
    IN  IF ~a1.org THEN [a1 EXCEPT !.action_per_episode = TRUE] ELSE a1

\* ---------------------------------------------------------------- refund
\* fault: a refund that gives back a base cost nobody paid
ap_refund_amount_with_base(rec) == rec.action_points + 1

\* AbstractAction.ap_refund_amount
ap_refund_amount(rec) == rec.action_points + BASE_AP_COST

NonZero(c) == c.amt # 0

\* one ledger call of a refund
CreditCall(p, attr, amt) == [k |-> "credit", p |-> p, attr |-> attr, amt |-> amt]

\* a step of a handler that is not a ledger call
RowStep(k, p) == [k |-> k, p |-> p, attr |-> "", amt |-> 0]

\* fault: a refund that forgets the silver
refund_without_silver(p, rec) ==
    << CreditCall(p, "action_points", ap_refund_amount(rec)) >>
    \o SelectSeq(<< CreditCall(p, "military", rec.military),
                    CreditCall(p, "economic", rec.economic),
                    CreditCall(p, "social", rec.social) >>,
                 NonZero)

\* AbstractAction.refund: the ledger calls it makes for participant p, in order
refund(p, rec) ==
    << CreditCall(p, "action_points", ap_refund_amount(rec)) >>
    \o SelectSeq(<< CreditCall(p, "military", rec.military),
                    CreditCall(p, "economic", rec.economic),
                    CreditCall(p, "social", rec.social),
                    CreditCall(p, "silver", rec.silver) >>,
                 NonZero)

\* PlotActionAssistant.cancel: refund if a story was written, then delete
Assistant_cancel(p, rec) ==
    (IF rec.actions THEN refund(p, rec) ELSE << >>)
    \o << RowStep("delete", p) >>

RECURSIVE CancelAssists(_, _)
CancelAssists(order, as) ==
    IF order = << >> THEN << >>
    ELSE Assistant_cancel(Head(order), as[Head(order)])
         \o CancelAssists(Tail(order), as)

\* PlotAction.cancel: every step of the call, in order
cancel_steps(order, a, as) ==
    CancelAssists(order, as)
    \o refund(Owner, a)
    \o << RowStep("finish", Owner) >>

\* fault: a cancel that never deletes the row
Finish_keep(st) == [st EXCEPT !.action = [@ EXCEPT !.status = CANCELLED]]

\* the end of PlotAction.cancel: the row is deleted (its requirement rows
\* with it) or kept as Cancelled
Finish(st) ==
    IF ~st.action.date_submitted
    THEN [st EXCEPT !.action = [@ EXCEPT !.exists = FALSE],
                    !.requirements = [t \in Rows |-> NoRequirement]]
    ELSE [st EXCEPT !.action = [@ EXCEPT !.status = CANCELLED]]

\* effect of one step on the rows and the ledger
ApplyStep(st, e) ==
    IF e.k = "credit"
    THEN [st EXCEPT !.balance = Credit(@, e.p, e.attr, e.amt)]
    ELSE IF e.k = "delete"
    THEN [st EXCEPT !.assists = [@ EXCEPT ![e.p] = NoAssist]]
    ELSE IF e.k = "submitted"
    THEN [st EXCEPT !.assists = [@ EXCEPT ![e.p].date_submitted = TRUE]]
    ELSE Finish(st)

RECURSIVE ApplySteps(_, _, _)
ApplySteps(st, steps, n) ==
    IF n = 0 THEN st
    ELSE ApplyStep(ApplySteps(st, steps, n - 1), steps[n])

\* all orders in which a queryset without ordering can yield the set S
Orders(S) ==
    {o \in [1..Cardinality(S) -> S] : \A i, j \in 1..Cardinality(S) : o[i] = o[j] => i = j}

\* ------------------------------------------------------------------ roll
\* fault: the division rounds down
Ceil_floor(val, divisor) == val \div divisor

\* int(math.ceil(val / divisor)), for a divisor of 1 or more
Ceil(val, divisor) ==
    IF val % divisor = 0 THEN val \div divisor ELSE (val \div divisor) + 1

Min(x, y) == IF x <= y THEN x ELSE y

\* get_value_from_assists of PlotAction.total_roll_value
get_value_from_assists(as, attr, divisor, maximum, base_value) ==
    IF maximum <= 0 THEN 0
    ELSE base_value + Min(maximum, Ceil(SumAssists(as, attr), divisor))

\* PlotAction.total_roll_value
total_roll_value(a, as) ==
    a.roll_value + a.additional_modifiers
    + get_value_from_assists(as, "roll_value", a.assist_divisor,
                             a.max_points_assists, 0)
    + get_value_from_assists(as, "silver", a.silver_divisor,
                             a.max_points_silver, a.silver)
    + get_value_from_assists(as, "economic", a.economic_divisor,
                             a.max_points_economic, a.economic)
    + get_value_from_assists(as, "social", a.social_divisor,
                             a.max_points_social, a.social)
    + get_value_from_assists(as, "military", a.military_divisor,
                             a.max_points_military, a.military)

\* no RollResult row: roll_result is null
NoResult == [total |-> 0, rank |-> 0]

\* the outcome table: the row it holds for a total and a target rank
get_result_for_roll(total_value, rank) == [total |-> total_value, rank |-> rank]

\* ------------------------------------------------------------------ Init
\* no add_required_resource call of the participant is running
NoCall == [pc |-> "idle", r_type |-> "", value |-> 0, weekly |-> 0]

NewAction(org) ==
    [exists |-> TRUE, status |-> DRAFT, editable |-> TRUE,
     date_submitted |-> FALSE, actions |-> FALSE, fields |-> FALSE,
     attending |-> TRUE, prefer_offscreen |-> FALSE, free_action |-> FALSE,
     org |-> org, beat |-> 0, action_per_episode |-> FALSE,
     orders |-> [m \in Armies |-> "none"],
     silver |-> 0, military |-> 0, economic |-> 0, social |-> 0,
     action_points |-> 0,
     roll_value |-> 0, additional_modifiers |-> 0,
     target_rank |-> 0, roll_result |-> NoResult,
     max_points_assists |-> 300, assist_divisor |-> 3,
     max_points_silver |-> 0, silver_divisor |-> 100000,
     max_points_economic |-> 0, economic_divisor |-> 1000,
     max_points_social |-> 0, social_divisor |-> 1000,
     max_points_military |-> 0, military_divisor |-> 1000]

\* the action's container and faction, fixed when the draft is created
Containers ==
    { [plot |-> [exists |-> FALSE, usage |-> GM_PLOT], org |-> FALSE],
      [plot |-> [exists |-> TRUE, usage |-> GM_PLOT], org |-> FALSE],
      [plot |-> [exists |-> TRUE, usage |-> CRISIS], org |-> TRUE] }

\* what a call reads from rows and services the engine does not own:
\* check_break(), the plot's resolved flag and end_date, and the other
\* actions of the same org (crisis) or owner in the current episode
PlotStates == {"open", "resolved", "expired"}
Envs == [brk : BOOLEAN, plot : PlotStates,
         others : {"none", "draft", "submitted"}]

\* a fresh draft in container c, with the calls explored from it
Fresh(c, budget) ==
    /\ action = NewAction(c.org)
    /\ plot = c.plot
    /\ assists = [p \in Participants |-> NoAssist]
    /\ requirements = [t \in Rows |-> NoRequirement]
    /\ prompted = FALSE
    /\ balance = [p \in Participants |-> [attr \in ResourceAttrs |-> InitBalance]]
    /\ left = budget
    /\ calls = [p \in Participants |-> NoCall]

Init ==
    \E c \in Containers :
       Fresh(c, [contrib |-> MaxContrib, reqs |-> MaxReqAdds,
                 cancels |-> MaxCancels, failures |-> MaxFailures])

\* the rows and ledgers a handler reads and writes
State == [action |-> action, assists |-> assists,
          requirements |-> requirements, balance |-> balance,
          prompted |-> prompted]

\* the handler's result is what is stored
Becomes(st) ==
    /\ action' = st.action
    /\ assists' = st.assists
    /\ requirements' = st.requirements
    /\ balance' = st.balance
    /\ prompted' = st.prompted

\* ------------------------------------------------- writing the two records
\* the owner writes the story of the action (PlotAction.actions)
WriteStory ==
    /\ action.exists /\ ~action.actions
    /\ action' = [action EXCEPT !.actions = TRUE]
    /\ UNCHANGED <<assists, requirements, plot, prompted, balance, left, calls>>

\* the owner fills in ooc intent, tldr, stat and skill, category
FillFields ==
    /\ action.exists /\ action.actions /\ ~action.fields
    /\ action' = [action EXCEPT !.fields = TRUE]
    /\ UNCHANGED <<assists, requirements, plot, prompted, balance, left, calls>>

\* PlotActionAssistant.set_action (BASE_AP_COST is paid on the first story)
PlotActionAssistant_set_action(p) ==
    IF CanPay(balance, p, "action_points", BASE_AP_COST)
    THEN [State EXCEPT !.assists = [@ EXCEPT ![p].actions = TRUE],
                       !.balance = Pay(@, p, "action_points", BASE_AP_COST)]
    ELSE State

set_action(p) ==
    /\ action.exists /\ assists[p].exists /\ ~assists[p].actions
    /\ Becomes(PlotActionAssistant_set_action(p))
    /\ UNCHANGED <<plot, left, calls>>

\* an assistant fills in ooc intent, tldr, stat and skill
AssistFillFields(p) ==
    /\ action.exists /\ assists[p].exists
    /\ assists[p].actions /\ ~assists[p].fields
    /\ assists' = [assists EXCEPT ![p].fields = TRUE]
    /\ UNCHANGED <<action, requirements, plot, prompted, balance, left, calls>>

\* staff mark a reviewed action as pending resolution
MarkPending ==
    /\ action.exists /\ action.status = NEEDS_GM
    /\ action' = [action EXCEPT !.status = PENDING_PUBLISH]
    /\ UNCHANGED <<assists, requirements, plot, prompted, balance, left, calls>>

\* ---------------------------------------------------------------- invite
\* fault: an invite that does not look at who owns the action
invite_error_any(p, member) ==
    IF p \in assisting_actions(assists) THEN "already invited"
    ELSE IF ~plot.exists THEN "no plot"
    ELSE IF plot.usage = CRISIS /\ ~action.org THEN "no org"
    ELSE IF plot.usage = CRISIS /\ ~member THEN "not a member"
    ELSE "none"

\* PlotAction.invite; member: p is an active member of the action's org
invite_error(p, member) ==
    IF p \in assisting_actions(assists) THEN "already invited"
    ELSE IF p = Owner THEN "owner"
    ELSE IF ~plot.exists THEN "no plot"
    ELSE IF plot.usage = CRISIS /\ ~action.org THEN "no org"
    ELSE IF plot.usage = CRISIS /\ ~member THEN "not a member"
    ELSE "none"

PlotAction_invite(p, member) ==
    IF invite_error(p, member) = "none"
    THEN [State EXCEPT !.assists = [@ EXCEPT ![p] = NewAssist]]
    ELSE State

invite(p, member) ==
    /\ action.exists
    /\ Becomes(PlotAction_invite(p, member))
    /\ UNCHANGED <<plot, left, calls>>

\* ------------------------------------------------------------ requirements
\* fault: only a requirement that is new re-opens the action
PlotAction_add_action_requirement_created(t, value, max_rate) ==
    IF t \in RESOURCE_TYPES
    THEN [State EXCEPT
            !.requirements = [@ EXCEPT ![t] = [@ EXCEPT !.exists = TRUE,
                                                        !.total_required_amount = value,
                                                        !.max_rate = max_rate]],
            !.action = IF requirements[t].exists THEN @
                       ELSE [@ EXCEPT !.status = NEEDS_PLAYER, !.editable = TRUE]]
    ELSE IF t \in DESCRIPTION_TYPES
    THEN [State EXCEPT
            !.requirements = [@ EXCEPT ![t] = [@ EXCEPT !.exists = TRUE]],
            !.action = IF requirements[t].exists THEN @
                       ELSE [@ EXCEPT !.status = NEEDS_PLAYER, !.editable = TRUE]]
    ELSE State

\* fault: an action has one row for each entity type, whatever is asked
PlotAction_add_action_requirement_one_per_type(t, value, max_rate) ==
    IF t \in RESOURCE_TYPES
    THEN [State EXCEPT
            !.requirements = [@ EXCEPT ![t] = [@ EXCEPT !.exists = TRUE,
                                                        !.total_required_amount = value,
                                                        !.max_rate = max_rate]],
            !.action = [@ EXCEPT !.status = NEEDS_PLAYER, !.editable = TRUE]]
    ELSE IF t \in DESCRIPTION_TYPES
    THEN [State EXCEPT
            !.requirements = [@ EXCEPT ![t] = [@ EXCEPT !.exists = TRUE,
                                                        !.requirement_text = value]],
            !.action = [@ EXCEPT !.status = NEEDS_PLAYER, !.editable = TRUE]]
    ELSE IF t \in FK_TYPES
    THEN [State EXCEPT
            !.requirements = [@ EXCEPT ![RowOf(t, 1)] = [@ EXCEPT !.exists = TRUE]],
            !.action = [@ EXCEPT !.status = NEEDS_PLAYER, !.editable = TRUE]]
    ELSE State

\* PlotAction.add_action_requirement: get_or_create by type, or by type and
\* entity, then the values of this call; any other type is one the method
\* raises ValueError for
PlotAction_add_action_requirement(t, value, max_rate) ==
    IF t \in RESOURCE_TYPES
    THEN [State EXCEPT
            !.requirements = [@ EXCEPT ![t] = [@ EXCEPT !.exists = TRUE,
                                                        !.total_required_amount = value,
                                                        !.max_rate = max_rate]],
            !.action = [@ EXCEPT !.status = NEEDS_PLAYER, !.editable = TRUE]]
    ELSE IF t \in DESCRIPTION_TYPES
    THEN [State EXCEPT
            !.requirements = [@ EXCEPT ![t] = [@ EXCEPT !.exists = TRUE,
                                                        !.requirement_text = value]],
            !.action = [@ EXCEPT !.status = NEEDS_PLAYER, !.editable = TRUE]]
    ELSE IF t \in FK_TYPES
    THEN [State EXCEPT
            !.requirements = [@ EXCEPT ![RowOf(t, value)] = [@ EXCEPT !.exists = TRUE]],
            !.action = [@ EXCEPT !.status = NEEDS_PLAYER, !.editable = TRUE]]
    ELSE State

add_action_requirement(t, value, max_rate) ==
    /\ action.exists /\ left.reqs > 0
    /\ Becomes(PlotAction_add_action_requirement(t, value, max_rate))
    /\ left' = [left EXCEPT !.reqs = @ - 1]
    /\ UNCHANGED <<plot, calls>>

\* ActionRequirement.get_choice_constant_from_string
get_choice_constant_from_string(r_type) ==
    CASE r_type = "silver"   -> SILVER
      [] r_type = "military" -> MILITARY
      [] r_type = "economic" -> ECONOMIC
      [] r_type = "social"   -> SOCIAL
      [] r_type = "ap"       -> AP
      [] r_type = "army"     -> FORCES
      [] r_type = "event"    -> EVENT
      [] r_type = "clue"       -> CLUE
      [] r_type = "revelation" -> REVELATION
      [] r_type = "skillnode"  -> SKILL_NODE
      [] r_type = "spell"      -> SPELL
      [] r_type = "item"       -> ITEM

\* the r_type strings of the requirements that are met by a description
DescriptionNames == {"army", "event"}

\* AbstractAction.add_army: "none" or the rejection raised; an id that is
\* not in Armies is one no army is found for or no orders are sent to
add_army_error(name_or_id) ==
    IF name_or_id \notin Armies THEN "no army" ELSE "none"

\* AbstractAction.add_army: the orders sent for the action, its own or an
\* assist's; orders an army already has for the action stay as they are
AbstractAction_add_army(a, name_or_id) ==
    [a EXCEPT !.orders[name_or_id] = IF @ = "none" THEN "pending" ELSE @]

\* the requirement types explored
Types == {get_choice_constant_from_string(n) : n \in ResourceNames}

\* the counter add_required_resource adds to
CounterOf(r_type) == IF r_type = "ap" THEN "action_points" ELSE r_type

Record(who) == IF who = Owner THEN action ELSE assists[who]

\* the row add_required_resource picks for a type and a value:
\* find_matching_fk_from_list for an entity, requirements[0] otherwise
requirement_row(t, value) == IF t \in FK_TYPES THEN RowOf(t, value) ELSE t

\* AbstractAction.add_required_resource: "none" or the rejection raised
add_required_resource_error(who, r_type, value, closed) ==
    LET rec == Record(who)
        t   == get_choice_constant_from_string(r_type)
        row == requirement_row(t, value)
        req == requirements[row]
    IN  IF ~rec.actions THEN "join first"
        ELSE IF plot.exists /\ Plot_raise_submission_errors(closed) # "none"
             THEN Plot_raise_submission_errors(closed)
        ELSE IF ~\E k \in DOMAIN requirements :
                    requirements[k].exists /\ requirement_type(k) = t
             THEN "no requirement"
        ELSE IF t \in FK_TYPES /\ (row \notin DOMAIN requirements \/ ~req.exists)
             THEN "no match"
        ELSE IF check_requirement_met(row, requirements, action, assists)
             THEN "already met"
        ELSE IF t = FORCES THEN add_army_error(value)
        ELSE IF t = EVENT \/ t \in FK_TYPES THEN "none"
        ELSE IF value <= 0 THEN "amount"
        ELSE IF check_value_exceeds_weekly_rate(req, value) THEN "weekly"
        ELSE IF (value + total(t, action, assists)) > req.total_required_amount
             THEN "total"
        ELSE IF ~CanPay(balance, who, CounterOf(r_type), value)
             THEN "afford"
        ELSE "none"

\* fault: a contribution that counts towards the week before it is paid
AbstractAction_add_required_resource_eager(who, r_type, value, closed) ==
    LET t    == get_choice_constant_from_string(r_type)
        attr == CounterOf(r_type)
        err  == add_required_resource_error(who, r_type, value, closed)
        st   == [State EXCEPT !.requirements = [@ EXCEPT ![t].weekly_total = @ + value]]
    IN  IF err = "afford" THEN st
        ELSE IF err # "none" THEN State
        ELSE [st EXCEPT
                 !.balance = Pay(@, who, attr, value),
                 !.action = IF who = Owner THEN [@ EXCEPT ![attr] = @ + value]
                            ELSE @,
                 !.assists = IF who = Owner THEN @
                             ELSE [@ EXCEPT ![who][attr] = @ + value]]

\* AbstractAction.add_required_resource
AbstractAction_add_required_resource(who, r_type, value, closed) ==
    LET t    == get_choice_constant_from_string(r_type)
        attr == CounterOf(r_type)
    IN  IF add_required_resource_error(who, r_type, value, closed) # "none"
        THEN State
        ELSE IF t = FORCES
        THEN [State EXCEPT
                 !.action = AbstractAction_add_army(@, value),
                 !.requirements = [@ EXCEPT ![t].fulfilled_by = TRUE]]
        ELSE IF t = EVENT
        THEN [State EXCEPT
                 !.requirements = [@ EXCEPT ![t].fulfilled_by = TRUE,
                                            ![t].rfr = value]]
        ELSE IF t \in FK_TYPES
        THEN [State EXCEPT
                 !.requirements =
                     [@ EXCEPT ![requirement_row(t, value)].fulfilled_by = TRUE]]
        ELSE [State EXCEPT
                 !.balance = Pay(@, who, attr, value),
                 !.requirements = [@ EXCEPT ![t].weekly_total = @ + value],
                 !.action = IF who = Owner THEN [@ EXCEPT ![attr] = @ + value]
                            ELSE @,
                 !.assists = IF who = Owner THEN @
                             ELSE [@ EXCEPT ![who][attr] = @ + value]]

\* fault: every contribution that is taken is announced as completing
inform_action_requirement_complete_always(who, r_type, value, closed) ==
    IF add_required_resource_error(who, r_type, value, closed) # "none" THEN 0
    ELSE 1

\* the notices "A requirement has been completed" that a call of
\* add_required_resource sends: requirement.check_requirement_met() after
\* requirement.save()
inform_action_requirement_complete(who, r_type, value, closed) ==
    LET st  == AbstractAction_add_required_resource(who, r_type, value, closed)
        row == requirement_row(get_choice_constant_from_string(r_type), value)
    IN  IF add_required_resource_error(who, r_type, value, closed) # "none" THEN 0
        ELSE IF check_requirement_met(row, st.requirements, st.action, st.assists)
             THEN 1 ELSE 0

add_required_resource(who, r_type, value, closed) ==
    /\ action.exists /\ Record(who).exists
    /\ IF add_required_resource_error(who, r_type, value, closed) = "none"
       THEN /\ left.contrib > 0
            /\ left' = [left EXCEPT !.contrib = @ - 1]
       ELSE UNCHANGED left
    /\ Becomes(AbstractAction_add_required_resource(who, r_type, value, closed))
    /\ UNCHANGED <<plot, calls>>

\* ---------------------------------------- a contribution, step by step
\* add_required_resource takes no lock and opens no transaction: calls of
\* different participants run their steps in any order.
\* First step: the call has read the requirement and the totals and has
\* raised none of the rejections that come before the payment.
add_required_resource_checked(who, r_type, value) ==
    /\ action.exists /\ Record(who).exists
    /\ calls[who].pc = "idle"
    /\ add_required_resource_error(who, r_type, value, "open") \in {"none", "afford"}
    /\ calls' = [calls EXCEPT ![who] =
                    [pc |-> "checked", r_type |-> r_type, value |-> value,
                     weekly |-> requirements[get_choice_constant_from_string(r_type)]
                                   .weekly_total]]
    /\ UNCHANGED <<action, assists, requirements, plot, prompted, balance, left>>

\* Second step: the payment; a ledger that does not cover it ends the call
add_required_resource_paid(who) ==
    /\ calls[who].pc = "checked"
    /\ LET c == calls[who] IN
       IF CanPay(balance, who, CounterOf(c.r_type), c.value)
       THEN /\ balance' = Pay(balance, who, CounterOf(c.r_type), c.value)
            /\ calls' = [calls EXCEPT ![who].pc = "paid"]
       ELSE /\ balance' = balance
            /\ calls' = [calls EXCEPT ![who] = NoCall]
    /\ UNCHANGED <<action, assists, requirements, plot, prompted, left>>

\* Third step: weekly_total and the counter are raised and saved; the
\* requirement row the call holds is the shared one or the copy it read
add_required_resource_stored(who) ==
    /\ calls[who].pc = "paid"
    /\ LET c    == calls[who]
           t    == get_choice_constant_from_string(c.r_type)
           attr == CounterOf(c.r_type)
       IN  /\ \E seen \in {requirements[t].weekly_total, c.weekly} :
                 requirements' = [requirements EXCEPT ![t].weekly_total = seen + c.value]
           /\ action' = IF who = Owner THEN [action EXCEPT ![attr] = @ + c.value]
                        ELSE action
           /\ assists' = IF who = Owner THEN assists
                         ELSE [assists EXCEPT ![who][attr] = @ + c.value]
    /\ calls' = [calls EXCEPT ![who] = NoCall]
    /\ UNCHANGED <<plot, prompted, balance, left>>

\* AbstractAction.add_army called for the action or one of its assists
add_army(who, name_or_id) ==
    /\ action.exists /\ Record(who).exists
    /\ Becomes(IF add_army_error(name_or_id) # "none" THEN State
               ELSE [State EXCEPT !.action = AbstractAction_add_army(@, name_or_id)])
    /\ UNCHANGED <<plot, left, calls>>

\* ---------------------------------------------------------------- submit
\* fault: an assist that fails its checks is left as it is
submit_or_refund_dangling(p, rec, a, brk) ==
    IF Abstract_raise_submission_errors(rec, a, brk) = "none"
    THEN << RowStep("submitted", p) >>
    ELSE << >>

\* PlotActionAssistant.submit_or_refund: the assist is stamped, or cancelled
submit_or_refund(p, rec, a, brk) ==
    IF Abstract_raise_submission_errors(rec, a, brk) = "none"
    THEN << RowStep("submitted", p) >>
    ELSE Assistant_cancel(p, rec)

RECURSIVE SubmitOrRefundAll(_, _, _, _)
SubmitOrRefundAll(order, as, a, brk) ==
    IF order = << >> THEN << >>
    ELSE submit_or_refund(Head(order), as[Head(order)], a, brk)
         \o SubmitOrRefundAll(Tail(order), as, a, brk)

\* fault: the filter keeps the assists that are already stamped
Unsubmitted_stamped(as) == {p \in assisting_actions(as) : as[p].date_submitted}

\* assisting_actions.filter(date_submitted__isnull=True)
Unsubmitted(as) == {p \in assisting_actions(as) : ~as[p].date_submitted}

\* fault: every accepted submit writes a new timestamp
StampsDate_always(rec) == TRUE

\* AbstractAction.on_submit_success: date_submitted is written only when the
\* record has none
StampsDate(rec) == ~rec.date_submitted

\* PlotAction.on_submit_success followed by AbstractAction.on_submit_success;
\* order: the order in which the table yields the assists of the action
on_submit_success(order, brk) ==
    LET draft == action.status = DRAFT
        a1    == IF draft THEN [action EXCEPT !.status = NEEDS_GM] ELSE action
        Kept(p) == p \in Unsubmitted(assists)
        steps == IF draft
                 THEN SubmitOrRefundAll(SelectSeq(order, Kept), assists, a1, brk)
                 ELSE << >>
        st    == ApplySteps([State EXCEPT !.action = a1], steps, Len(steps))
        a2    == IF StampsDate(st.action)
                 THEN [st.action EXCEPT !.date_submitted = TRUE] ELSE st.action
    IN  [st EXCEPT !.action = PlotAction_post_edit(a2, st.assists)]

\* fault: a submit that runs on_submit_success before it validates
PlotAction_submit_unchecked(env, order) ==
    LET err == PlotAction_raise_submission_errors(
                   action, assists, requirements, plot, prompted, env)
    IN  [on_submit_success(order, env.brk)
            EXCEPT !.prompted = (prompted \/ err = "warning")]

\* AbstractAction.submit on the PlotAction
PlotAction_submit(env, order) ==
    LET err == PlotAction_raise_submission_errors(
                   action, assists, requirements, plot, prompted, env)
    IN  IF err # "none"
        THEN [State EXCEPT !.prompted = (prompted \/ err = "warning")]
        ELSE on_submit_success(order, env.brk)

submit(env) ==
    /\ action.exists
    /\ \E order \in Orders(assisting_actions(assists)) :
          Becomes(PlotAction_submit(env, order))
    /\ UNCHANGED <<plot, left, calls>>

\* the notices to staff that a submit of the PlotAction sends: the one of
\* PlotAction.on_submit_success and the one of PlotAction.post_edit
inform_staff(env) ==
    IF PlotAction_raise_submission_errors(
           action, assists, requirements, plot, prompted, env) # "none"
    THEN {}
    ELSE {n \in {"submitted"} : action.status = DRAFT}
         \cup {n \in {"resubmitted"} :
                  action.status = NEEDS_PLAYER /\ all_editable(action, assists) = {}}

\* AbstractAction.submit on a PlotActionAssistant
PlotActionAssistant_submit(p, brk) ==
    LET as1 == IF StampsDate(assists[p])
               THEN [assists EXCEPT ![p].date_submitted = TRUE] ELSE assists IN
    IF Abstract_raise_submission_errors(assists[p], action, brk) # "none"
    THEN State
    ELSE [State EXCEPT !.assists = as1,
                       !.action = PlotAction_post_edit(action, as1)]

Assistant_submit(p, brk) ==
    /\ action.exists /\ assists[p].exists
    /\ Becomes(PlotActionAssistant_submit(p, brk))
    /\ UNCHANGED <<plot, left, calls>>

\* ------------------------------------------------------------------ roll
\* PlotAction.roll_all: "none" or the rejection raised
roll_all_error(a) == IF a.target_rank = 0 THEN "no difficulty" ELSE "none"

\* fault: a roll without the check for a difficulty
PlotAction_roll_all_unchecked(st) ==
    [st EXCEPT
        !.action = [@ EXCEPT !.roll_result =
                       get_result_for_roll(total_roll_value(st.action, st.assists),
                                           st.action.target_rank)]]

\* fault: a roll that keeps its total as a modifier of the next one
PlotAction_roll_all_adding(st) ==
    IF roll_all_error(st.action) # "none" THEN st
    ELSE [st EXCEPT
             !.action = [@ EXCEPT
                 !.roll_result =
                     get_result_for_roll(total_roll_value(st.action, st.assists),
                                         st.action.target_rank),
                 !.additional_modifiers = @ + 1]]

\* PlotAction.roll_all on the rows st
PlotAction_roll_all(st) ==
    IF roll_all_error(st.action) # "none" THEN st
    ELSE [st EXCEPT
             !.action = [@ EXCEPT !.roll_result =
                            get_result_for_roll(total_roll_value(st.action, st.assists),
                                                st.action.target_rank)]]

roll_all ==
    /\ action.exists
    /\ Becomes(PlotAction_roll_all(State))
    /\ UNCHANGED <<plot, left, calls>>

\* staff set the difficulty of the action (gm/diff), or the CheckRank row
\* it pointed to is deleted; rank = 0 stands for no difficulty
set_difficulty(rank) ==
    /\ action.exists /\ action.target_rank # rank
    /\ action' = [action EXCEPT !.target_rank = rank]
    /\ UNCHANGED <<assists, requirements, plot, prompted, balance, left, calls>>

\* --------------------------------------------------------------- publish
\* fault: only the orders of the first army are marked
CompleteOrders_first(orders) ==
    [m \in Armies |-> IF orders[m] # "none" /\ m = 1 THEN "complete" ELSE orders[m]]

\* for orders in self.orders.all(): orders.complete = True
CompleteOrders(orders) ==
    [m \in Armies |-> IF orders[m] # "none" THEN "complete" ELSE "none"]

\* PlotAction.send; update = 0 stands for update=None
PlotAction_send(update) ==
    [State EXCEPT
        !.action = [@ EXCEPT
                       !.beat = IF update # 0 THEN update ELSE @,
                       !.orders = IF action.status # PUBLISHED
                                  THEN CompleteOrders(@) ELSE @,
                       !.status = IF @ # PUBLISHED THEN PUBLISHED ELSE @,
                       !.editable = FALSE]]

send(update) ==
    /\ action.exists
    /\ Becomes(PlotAction_send(update))
    /\ UNCHANGED <<plot, left, calls>>

\* --------------------------------------------------------- plot updates
\* the list Plot.create_update puts an action on: the query takes the
\* Published, PendingPublish and Cancelled actions of the plot with no beat
create_update_list(a) ==
    IF a.beat # 0 \/ a.status \notin {PUBLISHED, PENDING_PUBLISH, CANCELLED}
    THEN "none"
    ELSE IF a.status = PENDING_PUBLISH THEN "pending"
    ELSE "already_published"

\* Plot.create_update, update being the PlotUpdate row it has created: a
\* pending action is sent with it; for the others on its list the method
\* assigns action.update, which is no column of PlotAction, and saves
Plot_create_update(update) ==
    IF create_update_list(action) = "pending" THEN PlotAction_send(update)
    ELSE State

create_update ==
    /\ action.exists /\ plot.exists
    /\ plot.updates <= NumUpdates
    /\ Becomes(Plot_create_update(plot.updates + 1))
    /\ plot' = [plot EXCEPT !.updates = @ + 1]
    /\ UNCHANGED <<left, calls>>

\* ---------------------------------------------------------------- cancel
\* PlotActionAssistant.cancel called for one assist (declining, withdrawing)
PlotActionAssistant_cancel(p) ==
    LET steps == Assistant_cancel(p, assists[p])
    IN  ApplySteps(State, steps, Len(steps))

cancel_assist(p) ==
    /\ action.exists /\ assists[p].exists
    /\ Becomes(PlotActionAssistant_cancel(p))
    /\ UNCHANGED <<plot, left, calls>>

\* PlotAction.cancel running to its end
PlotAction_cancel(order) ==
    LET steps == cancel_steps(order, action, assists)
    IN  ApplySteps(State, steps, Len(steps))

\* PlotAction.cancel stopped by its i-th step, a ledger call, raising
PlotAction_cancel_interrupted(order, i) ==
    ApplySteps(State, cancel_steps(order, action, assists), i - 1)

\* the steps of PlotAction.cancel at which the ledger can raise
LedgerCalls(order) ==
    {i \in 1..Len(cancel_steps(order, action, assists)) :
        cancel_steps(order, action, assists)[i].k = "credit"}

cancel ==
    /\ action.exists /\ left.cancels > 0
    /\ \E order \in Orders(assisting_actions(assists)) :
          Becomes(PlotAction_cancel(order))
    /\ left' = [left EXCEPT !.cancels = @ - 1]
    /\ UNCHANGED <<plot, calls>>

cancel_fails ==
    /\ action.exists /\ left.cancels > 0 /\ left.failures > 0
    /\ \E order \in Orders(assisting_actions(assists)) :
          \E i \in LedgerCalls(order) :
             Becomes(PlotAction_cancel_interrupted(order, i))
    /\ left' = [left EXCEPT !.failures = @ - 1]
    /\ UNCHANGED <<plot, calls>>

\* ------------------------------------------------------------------ Next
\* the whole engine, from a fresh draft
Next ==
    \/ WriteStory
    \/ FillFields
    \/ \E p \in Invited : set_action(p)
    \/ \E p \in Invited : AssistFillFields(p)
    \/ MarkPending
    \/ \E p \in Contributors, member \in BOOLEAN : invite(p, member)
    \/ \E t \in Types, value \in 1..MaxValue :
          add_action_requirement(t, value, 0)
    \/ \E who \in Contributors, r_type \in ResourceNames, value \in 1..MaxValue :
          add_required_resource(who, r_type, value, "open")
    \/ \E env \in Envs : submit(env)
    \/ \E p \in Invited, brk \in BOOLEAN : Assistant_submit(p, brk)
    \/ \E update \in 0..NumUpdates : send(update)
    \/ \E p \in Invited : cancel_assist(p)
    \/ cancel
    \/ cancel_fails

Spec == Init /\ [][Next]_vars

\* ---------------------------------------------------- the resource pool
\* an action of a GM plot whose requirements are filled and refunded
InitResources ==
    Fresh([plot |-> [exists |-> TRUE, usage |-> GM_PLOT], org |-> FALSE],
          [contrib |-> MaxContrib + 1, reqs |-> MaxReqAdds + 1,
           cancels |-> MaxCancels, failures |-> MaxFailures])

\* the calls of an episode without a break, on an open plot, by an owner
\* with no other action
Calm == {[brk |-> FALSE, plot |-> "open", others |-> "none"]}

NextResources ==
    \/ WriteStory
    \/ FillFields
    \/ \E env \in Calm : submit(env)
    \/ \E p \in Contributors : invite(p, FALSE)
    \/ \E p \in Invited : set_action(p)
    \/ \E t \in Types, value \in 1..MaxValue, max_rate \in 0..MaxRate :
          add_action_requirement(t, value, max_rate)
    \/ \E who \in Contributors, r_type \in ResourceNames, value \in 0..MaxValue,
          closed \in PlotStates : add_required_resource(who, r_type, value, closed)
    \/ \E p \in Invited : cancel_assist(p)
    \/ cancel
    \/ cancel_fails

SpecResources == InitResources /\ [][NextResources]_vars

\* ------------------------------------------------------------- the crowd
\* a draft that every assistant can join, with nothing to pay
InitCrowd ==
    \E c \in Containers :
       Fresh(c, [contrib |-> 0, reqs |-> 0, cancels |-> 0, failures |-> 0])

\* submits outside a break, on an open plot, by an owner or org with or
\* without an action submitted before
Busy == {[brk |-> FALSE, plot |-> "open", others |-> o] : o \in {"none", "submitted"}}

NextCrowd ==
    \/ WriteStory
    \/ FillFields
    \/ \E p \in Assistants : invite(p, TRUE)
    \/ \E p \in Assistants : set_action(p)
    \/ \E env \in Busy : submit(env)

SpecCrowd == InitCrowd /\ [][NextCrowd]_vars

\* ------------------------------------------------------ review and publish
\* an action of a GM plot that staff ask forces and an event for, review
\* and publish
InitReview ==
    Fresh([plot |-> [exists |-> TRUE, usage |-> GM_PLOT], org |-> FALSE],
          [contrib |-> MaxContrib + 1, reqs |-> MaxReqAdds + 1,
           cancels |-> 0, failures |-> 0])

\* the requirement types staff pass here, one of them not a type
Asked == DESCRIPTION_TYPES \cup {AP, Unrecognised}

NextReview ==
    \/ WriteStory
    \/ FillFields
    \/ \E t \in Asked : add_action_requirement(t, 1, 0)
    \/ \E r_type \in DescriptionNames, value \in 0..NumUpdates :
          add_required_resource(Owner, r_type, value, "open")
    \/ \E m \in 0..NumArmies : add_army(Owner, m)
    \/ \E env \in Calm : submit(env)
    \/ MarkPending
    \/ \E update \in 0..NumUpdates : send(update)

SpecReview == InitReview /\ [][NextReview]_vars

\* ------------------------------------------------- contributions in flight
\* an action of a GM plot with one requirement, paid into by several
\* participants whose calls are in flight together
InitConcurrent ==
    Fresh([plot |-> [exists |-> TRUE, usage |-> GM_PLOT], org |-> FALSE],
          [contrib |-> 0, reqs |-> 1, cancels |-> 0, failures |-> 0])

NextConcurrent ==
    \/ WriteStory
    \/ \E p \in Invited : invite(p, FALSE)
    \/ \E p \in Invited : set_action(p)
    \/ \E t \in Types, value \in 1..MaxValue, max_rate \in 0..MaxRate :
          add_action_requirement(t, value, max_rate)
    \/ \E who \in Contributors, r_type \in ResourceNames, value \in 1..MaxValue :
          add_required_resource_checked(who, r_type, value)
    \/ \E who \in Contributors : add_required_resource_paid(who)
    \/ \E who \in Contributors : add_required_resource_stored(who)

SpecConcurrent == InitConcurrent /\ [][NextConcurrent]_vars

\* ------------------------------------------------------ submit and resubmit
\* a draft that is written, joined, paid into, submitted, re-opened by a
\* requirement and submitted again
InitSubmit ==
    \E c \in Containers :
       Fresh(c, [contrib |-> MaxContrib, reqs |-> MaxReqAdds,
                 cancels |-> 0, failures |-> 0])

NextSubmit ==
    \/ WriteStory
    \/ FillFields
    \/ \E p \in Invited : invite(p, TRUE)
    \/ \E p \in Invited : set_action(p)
    \/ \E p \in Invited : AssistFillFields(p)
    \/ \E t \in Types : add_action_requirement(t, 1, 0)
    \/ \E who \in Contributors, r_type \in ResourceNames :
          add_required_resource(who, r_type, 1, "open")
    \/ \E env \in Envs : submit(env)
    \/ \E p \in Invited, brk \in BOOLEAN : Assistant_submit(p, brk)

SpecSubmit == InitSubmit /\ [][NextSubmit]_vars

\* ------------------------------------------------- what staff can ask for
\* an action of a GM plot that staff ask silver, forces, an event, clues and
\* items for, and that the owner and the assistants fulfil
InitRequirements ==
    Fresh([plot |-> [exists |-> TRUE, usage |-> GM_PLOT], org |-> FALSE],
          [contrib |-> MaxContrib + 1, reqs |-> MaxReqAdds + 1,
           cancels |-> 0, failures |-> 0])

\* the r_type strings passed here, and their requirement types
RequirementNames == {"silver", "army", "event", "clue", "item"}
Required == {get_choice_constant_from_string(n) : n \in RequirementNames}

NextRequirements ==
    \/ WriteStory
    \/ \E p \in Invited : invite(p, FALSE)
    \/ \E p \in Invited : set_action(p)
    \/ \E t \in Required, value \in 1..MaxValue, max_rate \in 0..MaxRate :
          add_action_requirement(t, value, max_rate)
    \/ \E who \in Contributors, r_type \in RequirementNames, value \in 0..MaxValue :
          add_required_resource(who, r_type, value, "open")
    \/ \E p \in Invited : cancel_assist(p)

SpecRequirements == InitRequirements /\ [][NextRequirements]_vars

\* --------------------------------------------------------- cancel, again
\* an action of a GM plot that is paid into, submitted, published and
\* cancelled, and cancelled once more
InitCancel ==
    Fresh([plot |-> [exists |-> TRUE, usage |-> GM_PLOT], org |-> FALSE],
          [contrib |-> MaxContrib, reqs |-> MaxReqAdds,
           cancels |-> MaxCancels + 1, failures |-> 0])

NextCancel ==
    \/ WriteStory
    \/ FillFields
    \/ \E p \in Invited : invite(p, FALSE)
    \/ \E p \in Invited : set_action(p)
    \/ \E t \in Types : add_action_requirement(t, 1, 0)
    \/ \E who \in Contributors, r_type \in ResourceNames :
          add_required_resource(who, r_type, 1, "open")
    \/ \E env \in Calm : submit(env)
    \/ \E update \in 0..NumUpdates : send(update)
    \/ cancel

SpecCancel == InitCancel /\ [][NextCancel]_vars

\* ---------------------------------------------------- updates of a plot
\* an action of a GM plot that is submitted, reviewed, published or
\* cancelled while staff post updates for the plot; updates counts the
\* PlotUpdate rows of the plot
InitUpdate ==
    Fresh([plot |-> [exists |-> TRUE, usage |-> GM_PLOT, updates |-> 0],
           org |-> FALSE],
          [contrib |-> 0, reqs |-> 0, cancels |-> MaxCancels, failures |-> 0])

NextUpdate ==
    \/ WriteStory
    \/ FillFields
    \/ \E p \in Invited : invite(p, FALSE)
    \/ \E p \in Invited : set_action(p)
    \/ \E p \in Invited : AssistFillFields(p)
    \/ \E env \in Calm : submit(env)
    \/ MarkPending
    \/ send(0)
    \/ cancel
    \/ create_update

SpecUpdate == InitUpdate /\ [][NextUpdate]_vars

\* ------------------------------------------------------------------ rolls
\* the values staff give an action's roll fields and a sheet gives a roll
Caps       == {0, MaxCap}
Divisors   == {1, MaxDivisor}
RollValues == {MaxRoll - 2, MaxRoll}
Ranks      == 0..NumRanks

\* the assist rows an action can have when it is rolled: none for the
\* participant, or one with a sheet's roll value and some silver paid in
RolledAssists ==
    {NoAssist}
    \cup {[NewAssist EXCEPT !.actions = TRUE, !.fields = TRUE,
                            !.roll_value = r, !.silver = v] :
              r \in RollValues, v \in 0..MaxContrib}

\* an action of a GM plot as staff have set it up for its roll: submitted,
\* re-opened by a silver and a military requirement, and these met by what
\* the owner and the assists have paid in from their ledgers
InitRoll ==
    /\ \E r \in {0, MaxRoll}, m \in {-1, 0},
          ca, cs, cm \in Caps, da, ds, dm \in Divisors,
          sv, mv \in 0..MaxContrib :
          action = [NewAction(FALSE) EXCEPT
                       !.actions = TRUE, !.fields = TRUE,
                       !.date_submitted = TRUE, !.status = NEEDS_PLAYER,
                       !.action_per_episode = TRUE,
                       !.roll_value = r, !.additional_modifiers = m,
                       !.max_points_assists = ca, !.assist_divisor = da,
                       !.max_points_silver = cs, !.silver_divisor = ds,
                       !.max_points_military = cm, !.military_divisor = dm,
                       !.silver = sv, !.military = mv]
    /\ plot = [exists |-> TRUE, usage |-> GM_PLOT]
    /\ \E rows \in [Invited -> RolledAssists] :
          assists = [p \in Participants |-> IF p \in Invited THEN rows[p] ELSE NoAssist]
    /\ requirements =
          [t \in Rows |->
              IF t \in {SILVER, MILITARY}
              THEN [NoRequirement EXCEPT
                       !.exists = TRUE,
                       !.total_required_amount = total(t, action, assists),
                       !.weekly_total = total(t, action, assists)]
              ELSE NoRequirement]
    /\ prompted = TRUE
    /\ balance = [p \in Participants |->
                     [attr \in ResourceAttrs |->
                         InitBalance - (IF p = Owner THEN action[attr]
                                        ELSE assists[p][attr])]]
    /\ left = [contrib |-> 0, reqs |-> 0, cancels |-> 0, failures |-> 0]
    /\ calls = [p \in Participants |-> NoCall]

NextRoll ==
    \/ roll_all
    \/ \E rank \in Ranks : set_difficulty(rank)
    \/ \E p \in Invited : invite(p, FALSE)
    \/ \E p \in Invited : cancel_assist(p)

SpecRoll == InitRoll /\ [][NextRoll]_vars

\* ================================================================= claims
\* the counter a requirement type is paid into
AttrOf(t) ==
    CASE t = SILVER   -> "silver"
      [] t = MILITARY -> "military"
      [] t = ECONOMIC -> "economic"
      [] t = SOCIAL   -> "social"
      [] t = AP       -> "action_points"

\* what the assists 1..n that are attached hold in one counter
RECURSIVE HeldBelow(_, _)
HeldBelow(attr, n) ==
    IF n = 0 THEN 0
    ELSE HeldBelow(attr, n - 1)
         + (IF assists[n].exists THEN assists[n][attr] ELSE 0)

\* owner's counter plus the counters of the attached assists
Held(attr) == action[attr] + HeldBelow(attr, NumAssistants)

\* what participant p's own record holds in one counter
Counters(p, attr) ==
    IF p = Owner THEN action[attr]
    ELSE IF assists[p].exists THEN assists[p][attr] ELSE 0

TERMINAL == {CANCELLED, PUBLISHED}

Rejected(env) ==
    PlotAction_raise_submission_errors(
        action, assists, requirements, plot, prompted, env) # "none"

\* the assists without a submission timestamp, and the attached ones
NotStamped == {p \in Assistants : assists[p].exists /\ ~assists[p].date_submitted}
Attached == {p \in Assistants : assists[p].exists}

\* ---------------------------------------------------------------------- C1
\* C1: for every resource type the action's total spent is the owner's own
\* counter plus the counters of the assists now attached, whatever
\* contributions, invitations and assist deletions came before, and the
\* requirement check of a submit compares exactly that total.
C1_TotalIsOwnerPlusAssists ==
    action.exists =>
       /\ \A t \in RESOURCE_TYPES : total(t, action, assists) = Held(AttrOf(t))
       /\ (check_requirement_errors(requirements, action, assists) = "none")
          <=> (\A t \in RESOURCE_TYPES :
                  requirements[t].exists =>
                     Held(AttrOf(t)) >= requirements[t].total_required_amount)

\* the owner and an attached assist both hold some of one resource
C1_Witness ==
    /\ action.exists
    /\ \E t \in Types, p \in Assistants :
          /\ action[AttrOf(t)] > 0
          /\ assists[p].exists /\ assists[p][AttrOf(t)] > 0

\* ---------------------------------------------------------------------- C2
\* C2: once the status is Cancelled or Published no step of the engine
\* changes it to another status.
C2_TerminalStatusStays ==
    [][(action.exists /\ action.status \in TERMINAL)
       => (action'.exists => action'.status = action.status)]_vars

\* ---------------------------------------------------------------------- C3
\* C3: send on an action that is neither NeedsGM nor PendingPublish leaves
\* the action (status, editable flag, beat) as it was.
C3_PublishOnlyFromReview ==
    [][((\E update \in 0..NumUpdates : send(update))
        /\ action.status \notin {NEEDS_GM, PENDING_PUBLISH})
       => action' = action]_vars

\* ---------------------------------------------------------------------- C4
\* C4: a submit of a Draft that passes the validator leaves the status
\* NeedsGM and the action stamped, and every assist without a timestamp is
\* stamped if it was ready and deleted otherwise; stamped assists stay.
C4_DraftSubmit ==
    (action.exists /\ action.status = DRAFT) =>
       \A env \in Envs, order \in Orders(Attached) :
          ~Rejected(env) =>
             LET st == PlotAction_submit(env, order) IN
             /\ st.action.status = NEEDS_GM
             /\ st.action.date_submitted
             /\ \A p \in Assistants :
                   IF p \notin NotStamped
                   THEN st.assists[p] = assists[p]
                   ELSE IF assists[p].actions /\ assists[p].fields
                   THEN st.assists[p] = [assists[p] EXCEPT !.date_submitted = TRUE]
                   ELSE ~st.assists[p].exists

\* a Draft with a ready assist and an unready one, neither stamped, whose
\* submit passes here and leaves the first stamped and the second deleted
C4_Witness ==
    /\ action.exists /\ action.status = DRAFT
    /\ \E p, q \in NotStamped :
          /\ assists[p].actions /\ assists[p].fields
          /\ ~assists[q].fields
          /\ \E env \in Envs, order \in Orders(Attached) :
                /\ ~Rejected(env)
                /\ PlotAction_submit(env, order).action.status = NEEDS_GM
                /\ PlotAction_submit(env, order).assists[p].date_submitted
                /\ ~PlotAction_submit(env, order).assists[q].exists

\* ---------------------------------------------------------------------- C5
\* C5: a submit the validator rejects leaves the action (status, editable
\* flag, timestamp, counters), its assists, its requirements and every
\* ledger balance as they were.
C5_RejectedSubmit ==
    action.exists =>
       \A env \in Envs, order \in Orders(Attached) :
          Rejected(env) =>
             LET st == PlotAction_submit(env, order) IN
             /\ st.action = action
             /\ st.assists = assists
             /\ st.requirements = requirements
             /\ st.balance = balance

\* an action that a submit was rejected for before (the prompt is set),
\* now with an unmet requirement an assist has paid into, and a submit
\* that is rejected here
C5_Witness ==
    /\ action.exists /\ action.status = NEEDS_PLAYER /\ prompted
    /\ \E p \in Attached, attr \in ResourceAttrs : assists[p][attr] > 0
    /\ check_requirement_errors(requirements, action, assists) # "none"
    /\ \E env \in Envs : Rejected(env)

\* ---------------------------------------------------------------------- C6
\* C6: cancel of an action that is neither Cancelled nor Published leaves
\* no assist of it, deletes the action iff it was never stamped and leaves
\* it Cancelled otherwise; and in a cancel that stops at a ledger call, the
\* owner was credited or the action changed only if no assist is left.
C6_CancelOrder ==
    action.exists =>
       \A order \in Orders(Attached) :
          /\ action.status \notin TERMINAL =>
                LET st == PlotAction_cancel(order) IN
                /\ \A p \in Assistants : ~st.assists[p].exists
                /\ st.action.exists <=> action.date_submitted
                /\ st.action.exists => st.action.status = CANCELLED
          /\ \A i \in LedgerCalls(order) :
                LET st == PlotAction_cancel_interrupted(order, i) IN
                (st.balance[Owner] # balance[Owner] \/ st.action # action)
                => \A p \in Assistants : ~st.assists[p].exists

\* a stamped action with an assist that holds a contribution, which cancel
\* leaves Cancelled and without assists
C6_Witness ==
    /\ action.exists /\ action.date_submitted
    /\ action.status \notin TERMINAL
    /\ \E p \in Attached, attr \in ResourceAttrs : assists[p][attr] > 0
    /\ \E order \in Orders(Attached) :
          /\ PlotAction_cancel(order).action.status = CANCELLED
          /\ \A p \in Assistants : ~PlotAction_cancel(order).assists[p].exists

\* ---------------------------------------------------------------------- C7
\* C7: a cancel that runs to its end credits every participant exactly
\* what their own record holds (nothing for a record of zeros); and an
\* assist that is deleted, by its own cancel or by a cancel of the action
\* that stops later, has had its participant credited exactly what it held.
C7_RefundExact ==
    action.exists =>
       /\ \A order \in Orders(Attached) :
             /\ \A p \in Participants, attr \in ResourceAttrs :
                   PlotAction_cancel(order).balance[p][attr]
                      = balance[p][attr] + Counters(p, attr)
             /\ \A i \in LedgerCalls(order), p \in Attached :
                   LET st == PlotAction_cancel_interrupted(order, i) IN
                   ~st.assists[p].exists
                   => \A attr \in ResourceAttrs :
                         st.balance[p][attr] = balance[p][attr] + assists[p][attr]
       /\ \A p \in Attached :
             /\ ~PlotActionAssistant_cancel(p).assists[p].exists
             /\ \A attr \in ResourceAttrs :
                   PlotActionAssistant_cancel(p).balance[p][attr]
                      = balance[p][attr] + assists[p][attr]

\* the owner and one assist hold contributions, another assist holds none,
\* and cancel credits the first two and not the third
C7_Witness ==
    /\ action.exists
    /\ \E p, q \in Attached, a, b \in ResourceAttrs :
          /\ action[a] > 0 /\ assists[p][b] > 0
          /\ \A c \in ResourceAttrs : assists[q][c] = 0
          /\ \E order \in Orders(Attached) :
                LET st == PlotAction_cancel(order) IN
                /\ st.balance[Owner][a] = balance[Owner][a] + action[a]
                /\ st.balance[p][b] = balance[p][b] + assists[p][b]
                /\ st.balance[q] = balance[q]

\* ---------------------------------------------------------------------- C8
\* C8: after a cancel that stopped at a ledger call and a cancel that ran
\* to its end, no participant owns more of a resource than before paying
\* anything in: nothing was credited twice.
C8_CreditedAtMostOnce ==
    (left.failures < MaxFailures /\ left.cancels < MaxCancels)
    => \A p \in Participants, attr \in ResourceAttrs :
          balance[p][attr] <= InitBalance

C10_MetIffTotalReachesRequired ==
    action.exists =>
       \A t \in RESOURCE_TYPES :
          requirements[t].exists =>
             /\ check_requirement_met(t, requirements, action, assists)
                <=> Held(AttrOf(t)) >= requirements[t].total_required_amount
             /\ Held(AttrOf(t)) = requirements[t].total_required_amount
                => check_requirement_met(t, requirements, action, assists)
             /\ Held(AttrOf(t)) = requirements[t].total_required_amount - 1
                => ~check_requirement_met(t, requirements, action, assists)

\* a requirement without a weekly rate, met by the owner and an assist who
\* each paid a part of exactly the amount
C10_Witness ==
    /\ action.exists
    /\ \E t \in Types, p \in Assistants :
          /\ requirements[t].exists /\ requirements[t].max_rate = 0
          /\ action[AttrOf(t)] > 0
          /\ assists[p].exists /\ assists[p][AttrOf(t)] > 0
          /\ Held(AttrOf(t)) = requirements[t].total_required_amount
          /\ check_requirement_met(t, requirements, action, assists)

\* --------------------------------------------------------------------- C11
\* C11: every resource requirement with a max_rate above 0 has a
\* weekly_total of at most its max_rate, whatever contributions and
\* add_action_requirement calls came before.
C11_WeeklyTotalWithinRate ==
    \A t \in RESOURCE_TYPES :
       (requirements[t].exists /\ requirements[t].max_rate > 0)
       => requirements[t].weekly_total <= requirements[t].max_rate

\* --------------------------------------------------------------------- C12
\* the amounts a caller can pass, the ones that are not positive included
Amounts == (-1)..MaxValue

\* value is refused for the requirement of type t: not positive, above what
\* the weekly rate leaves, or above what the required amount leaves
Refused(t, value) ==
    \/ value <= 0
    \/ /\ requirements[t].max_rate > 0
       /\ requirements[t].weekly_total + value > requirements[t].max_rate
    \/ Held(AttrOf(t)) + value > requirements[t].total_required_amount

\* value brings the requirement of type t exactly to its rate or its amount
ReachesExactly(t, value) ==
    \/ /\ requirements[t].max_rate > 0
       /\ requirements[t].weekly_total + value = requirements[t].max_rate
    \/ Held(AttrOf(t)) + value = requirements[t].total_required_amount

\* C12: a contribution whose value is not positive, would push weekly_total
\* above a max_rate over 0, or would push the total spent above
\* total_required_amount changes nothing (no ledger, counter or weekly_total);
\* one that reaches the rate or the amount exactly, by a participant with a
\* story who can afford it, is taken: paid, counted and added to weekly_total.
C12_RefusedContribution ==
    action.exists =>
       \A who \in Participants, r_type \in ResourceNames, value \in Amounts :
          LET t  == get_choice_constant_from_string(r_type)
              st == AbstractAction_add_required_resource(who, r_type, value, "open")
          IN  (Record(who).exists /\ requirements[t].exists) =>
                 /\ Refused(t, value) => st = State
                 /\ (/\ ~Refused(t, value) /\ ReachesExactly(t, value)
                     /\ Record(who).actions
                     /\ balance[who][AttrOf(t)] >= value)
                    => /\ st.balance[who][AttrOf(t)] = balance[who][AttrOf(t)] - value
                       /\ st.requirements[t].weekly_total
                             = requirements[t].weekly_total + value

\* a rate-limited requirement that one participant can bring exactly to its
\* rate, while a larger value of the same participant is refused for the rate
C12_Witness ==
    /\ action.exists
    /\ \E who \in Participants, r_type \in ResourceNames, v, w \in 1..MaxValue :
          LET t == get_choice_constant_from_string(r_type) IN
          /\ Record(who).exists /\ Record(who).actions
          /\ requirements[t].exists /\ requirements[t].max_rate > 0
          /\ requirements[t].weekly_total + v = requirements[t].max_rate
          /\ requirements[t].weekly_total + w > requirements[t].max_rate
          /\ Held(AttrOf(t)) + w <= requirements[t].total_required_amount
          /\ AbstractAction_add_required_resource(who, r_type, w, "open") = State
          /\ AbstractAction_add_required_resource(who, r_type, v, "open")
                .requirements[t].weekly_total = requirements[t].max_rate

\* --------------------------------------------------------------------- C13
\* C13: a contribution either changes nothing, and that is what happens when
\* the participant's ledger does not cover the value, or it debits the ledger
\* by exactly the value and adds exactly the value to the participant's
\* counter and to the requirement's weekly_total, and nothing else.
C13_AllOrNothing ==
    action.exists =>
       \A who \in Participants, r_type \in ResourceNames, value \in Amounts,
          closed \in PlotStates :
          LET t    == get_choice_constant_from_string(r_type)
              attr == AttrOf(t)
              st   == AbstractAction_add_required_resource(who, r_type, value, closed)
          IN  Record(who).exists =>
                 /\ balance[who][attr] < value => st = State
                 /\ \/ st = State
                    \/ /\ st.balance = [balance EXCEPT ![who][attr] = @ - value]
                       /\ st.requirements =
                             [requirements EXCEPT ![t].weekly_total = @ + value]
                       /\ IF who = Owner
                          THEN /\ st.action = [action EXCEPT ![attr] = @ + value]
                               /\ st.assists = assists
                          ELSE /\ st.action = action
                               /\ st.assists = [assists EXCEPT ![who][attr] = @ + value]
                       /\ st.prompted = prompted

\* a participant whose ledger covers one value and not another, both of
\* which the requirement would take
C13_Witness ==
    /\ action.exists
    /\ \E who \in Participants, r_type \in ResourceNames, v, w \in 1..MaxValue :
          /\ Record(who).exists
          /\ add_required_resource_error(who, r_type, v, "open") = "none"
          /\ add_required_resource_error(who, r_type, w, "open") = "afford"
          /\ AbstractAction_add_required_resource(who, r_type, w, "open") = State
          /\ AbstractAction_add_required_resource(who, r_type, v, "open") # State

\* --------------------------------------------------------------------- C14
\* C14: contributions that are in flight together leave what a serial order
\* leaves: the total spent of a type never passes the requirement's
\* total_required_amount and weekly_total never passes a max_rate above 0.
C14_NoOvershoot ==
    \A t \in RESOURCE_TYPES :
       requirements[t].exists =>
          /\ Held(AttrOf(t)) <= requirements[t].total_required_amount
          /\ requirements[t].max_rate > 0
             => requirements[t].weekly_total <= requirements[t].max_rate

\* --------------------------------------------------------------------- C15
\* C15: a Published action has no requirement that reports unmet.
C15_PublishedHasRequirementsMet ==
    (action.exists /\ action.status = PUBLISHED)
    => check_requirement_errors(requirements, action, assists) = "none"

\* --------------------------------------------------------------------- C18
\* the place of a rejection in the order required fields (with the break of
\* the same check), container window, per-period uniqueness, crowd limit,
\* requirements, draft warning
Place(err) ==
    CASE err \in {"fields", "break"}           -> 1
      [] err \in {"resolved", "deadline"}      -> 2
      [] err \in {"no org", "org busy", "max"} -> 3
      [] err = "overcrowd"                     -> 4
      [] err = "requirements"                  -> 5
      [] err = "warning"                       -> 6

\* what every check of the validator says on its own, for one submit
Failing(env) ==
    { Abstract_raise_submission_errors(action, action, env.brk),
      IF plot.exists /\ action.status # NEEDS_PLAYER
          THEN Plot_raise_submission_errors(env.plot) ELSE "none",
      IF plot.exists THEN check_org_busy(action, plot, env.others) ELSE "none",
      IF action.status = DRAFT
          THEN check_action_against_maximum_allowed(action, env.others) ELSE "none",
      check_plot_overcrowd(action, assists),
      check_requirement_errors(requirements, action, assists),
      IF action.status = DRAFT THEN check_warning_prompt_sent(prompted) ELSE "none" }
    \ {"none"}

\* C18: when several checks fail for a submit, the rejection it reports is
\* the one of the check that comes first in the order required fields,
\* container window, per-period uniqueness, crowd limit, requirements,
\* draft warning.
C18_EarliestCheckReported ==
    action.exists =>
       \A env \in Envs :
          LET err == PlotAction_raise_submission_errors(
                         action, assists, requirements, plot, prompted, env)
          IN  /\ (err = "none") <=> (Failing(env) = {})
              /\ \A other \in Failing(env) : Place(err) <= Place(other)

\* --------------------------------------------------------------------- C19
\* the per-period uniqueness check rejects: check_org_busy for the org of a
\* crisis action, or check_action_against_maximum_allowed
UniquenessRejects(env) ==
    \/ plot.exists /\ check_org_busy(action, plot, env.others) = "org busy"
    \/ check_action_against_maximum_allowed(action, env.others) = "max"

\* C19: for a Draft that is not a free action the per-period uniqueness
\* check rejects exactly when the org (crisis) or the owner has another
\* action of the episode that was submitted and is not cancelled; other
\* drafts and cancelled actions do not count, and a free action is never
\* rejected by it.
C19_UniquenessCountsSubmittedOnly ==
    (action.exists /\ action.status = DRAFT) =>
       \A env \in Envs :
          IF action.free_action THEN ~UniquenessRejects(env)
          ELSE UniquenessRejects(env) <=> env.others = "submitted"

\* --------------------------------------------------------------------- C20
\* C20: an action that left Draft and is not Cancelled or Published, with
\* its fields, crowd and requirements in order, on an open plot outside a
\* break, and with no other action of its org or owner in the episode, is
\* not rejected by submit: its own earlier submission does not count
\* against it.
C20_ResubmitAccepted ==
    (/\ action.exists
     /\ action.status \in {NEEDS_PLAYER, NEEDS_GM, PENDING_PUBLISH}
     /\ ~check_incomplete_required_fields(action)
     /\ check_plot_overcrowd(action, assists) = "none"
     /\ check_requirement_errors(requirements, action, assists) = "none")
    => ~Rejected([brk |-> FALSE, plot |-> "open", others |-> "none"])

\* --------------------------------------------------------------------- C16
\* C16: add_action_requirement with a type it knows leaves the action
\* NeedsPlayerInput and editable, whether the requirement is new or was
\* there before; with a type it does not know it changes nothing.
C16_RequirementReopens ==
    action.exists =>
       \A value \in 0..MaxValue, max_rate \in 0..MaxRate :
          /\ \A t \in KeyedByType :
                LET st == PlotAction_add_action_requirement(t, value, max_rate) IN
                /\ st.action.status = NEEDS_PLAYER
                /\ st.action.editable
                /\ st.requirements[t].exists
          /\ PlotAction_add_action_requirement(Unrecognised, value, max_rate) = State

\* a published action, not editable, with a requirement that is added again
C16_Witness ==
    /\ action.exists /\ action.status = PUBLISHED /\ ~action.editable
    /\ \E t \in KeyedByType :
          /\ requirements[t].exists
          /\ PlotAction_add_action_requirement(t, 1, 0).action.status = NEEDS_PLAYER
          /\ PlotAction_add_action_requirement(t, 1, 0).action.editable
    /\ PlotAction_add_action_requirement(Unrecognised, 1, 0).action.status = PUBLISHED

\* --------------------------------------------------------------------- C17
\* C17: send on an action in NeedsGM or PendingPublish leaves it Published
\* and not editable, with every one of its army orders complete, and with
\* the beat that was passed, or the beat it had when none was passed.
C17_PublishFromReview ==
    (action.exists /\ action.status \in {NEEDS_GM, PENDING_PUBLISH}) =>
       \A update \in 0..NumUpdates :
          LET st == PlotAction_send(update) IN
          /\ st.action.status = PUBLISHED
          /\ ~st.action.editable
          /\ \A m \in Armies :
                st.action.orders[m] = IF action.orders[m] = "none" THEN "none"
                                      ELSE "complete"
          /\ st.action.beat = IF update # 0 THEN update ELSE action.beat
          /\ st.assists = assists /\ st.requirements = requirements
          /\ st.balance = balance

\* a pending action with orders sent to two armies, which send completes
C17_Witness ==
    /\ action.exists /\ action.status = PENDING_PUBLISH /\ action.editable
    /\ \A m \in Armies : action.orders[m] = "pending"
    /\ \A m \in Armies : PlotAction_send(0).action.orders[m] = "complete"
    /\ PlotAction_send(0).action.status = PUBLISHED

\* --------------------------------------------------------------------- C21
\* C21: a submitted action that does not prefer offscreen resolution has at
\* most attending_limit attendees (the owner and the assists with a story
\* that attend), also counting the assists that joined after the owner's
\* submission.
C21_SubmittedWithinLimit ==
    (action.exists /\ action.date_submitted /\ ~action.prefer_offscreen)
    => Cardinality(attendees(action, assists)) <= attending_limit

\* --------------------------------------------------------------------- C22
\* the rejection a submit raises, "none" when it raises none
Rejection(env) ==
    PlotAction_raise_submission_errors(
        action, assists, requirements, plot, prompted, env)

\* a submit that no check before the draft warning rejects
PassesBeforeWarning(env) == Failing(env) \subseteq {"warning"}

\* C22 as stated: a Draft that passes the checks before the warning is
\* rejected with the warning on its first submit only when some assist is
\* not ready, and then stays Draft with its assists while the next submit
\* goes through; when every assist is ready, or there is none, the first
\* submit goes through.
C22_WarningOnlyForUnreadyAssists ==
    (action.exists /\ action.status = DRAFT /\ ~prompted) =>
       \A env \in Envs, order \in Orders(assisting_actions(assists)) :
          PassesBeforeWarning(env) =>
             IF get_unready_assisting_actions(action, assists, env.brk) # {}
             THEN /\ PlotAction_submit(env, order) = [State EXCEPT !.prompted = TRUE]
                  /\ PlotAction_raise_submission_errors(
                         action, assists, requirements, plot, TRUE, env) = "none"
             ELSE PlotAction_submit(env, order).action.status = NEEDS_GM

\* C22 as the code has it: a Draft that passes the checks before the
\* warning is rejected with the warning on the first submit, whether or not
\* an assist is unready, and stays Draft with all its assists; the submit
\* after that goes through to NeedsGM.
C22_WarningOnFirstAttempt ==
    (action.exists /\ action.status = DRAFT) =>
       \A env \in Envs, order \in Orders(assisting_actions(assists)) :
          PassesBeforeWarning(env) =>
             IF ~prompted
             THEN /\ Rejection(env) = "warning"
                  /\ PlotAction_submit(env, order) = [State EXCEPT !.prompted = TRUE]
                  /\ PlotAction_raise_submission_errors(
                         action, assists, requirements, plot, TRUE, env) = "none"
             ELSE /\ Rejection(env) = "none"
                  /\ PlotAction_submit(env, order).action.status = NEEDS_GM

\* a draft that passes the checks, whose only assist is ready, before its
\* first submit
C22_Witness ==
    /\ action.exists /\ action.status = DRAFT /\ ~prompted
    /\ assisting_actions(assists) # {}
    /\ \E env \in Envs :
          /\ PassesBeforeWarning(env)
          /\ get_unready_assisting_actions(action, assists, env.brk) = {}
          /\ Rejection(env) = "warning"

\* --------------------------------------------------------------------- C23
\* what a submit that follows at once, with nothing changed, leaves alone:
\* the rows, the ledgers, the timestamp, and staff get no notice
SubmitChangesNothing(env) ==
    /\ \A order \in Orders(assisting_actions(assists)) :
          LET st == PlotAction_submit(env, order) IN
          /\ st.action = action /\ st.assists = assists
          /\ st.requirements = requirements /\ st.balance = balance
    /\ Rejection(env) = "none" => ~StampsDate(action)
    /\ inform_staff(env) = {}

\* what every accepted submit leaves behind: a timestamp, a status past
\* Draft, NeedsPlayerInput only while a record is editable, and the
\* ActionPerEpisode row of an action without org
Submitted(a, as) ==
    /\ a.date_submitted
    /\ a.status # DRAFT
    /\ a.status = NEEDS_PLAYER => all_editable(a, as) # {}
    /\ a.org \/ a.action_per_episode

\* C23: every accepted submit leaves the action as described by Submitted,
\* and a submit of an action in that condition, when nothing is changed
\* first, changes no status, writes no timestamp, credits and debits no
\* ledger, deletes no assist and sends staff no notice.  (A rejected submit
\* changes nothing that a second call could repeat.)
C23_SubmitTwice ==
    action.exists =>
       \A env \in Envs :
          /\ Rejection(env) = "none" =>
                \A order \in Orders(assisting_actions(assists)) :
                   Submitted(PlotAction_submit(env, order).action,
                             PlotAction_submit(env, order).assists)
          /\ Submitted(action, assists) => SubmitChangesNothing(env)

\* a draft whose submit is accepted: the call stamps it, tells staff and
\* deletes an assist that is not ready, and a second call repeats none of it
C23_Witness ==
    /\ action.exists /\ action.status = DRAFT /\ StampsDate(action)
    /\ \E env \in Envs :
          /\ Rejection(env) = "none"
          /\ inform_staff(env) = {"submitted"}
          /\ get_unready_assisting_actions(action, assists, env.brk) # {}
          /\ \E order \in Orders(assisting_actions(assists)) :
                PlotAction_submit(env, order).assists # assists

\* --------------------------------------------------------------------- C24
\* C24: after an accepted submit of a Draft every assist that failed its
\* own submission checks is deleted and its participant's ledger holds what
\* it held plus the assist's counters, every assist still attached has a
\* submission timestamp, and no other ledger has changed.
C24_UnreadyAssistsRefunded ==
    (action.exists /\ action.status = DRAFT) =>
       \A env \in Envs, order \in Orders(assisting_actions(assists)) :
          Rejection(env) = "none" =>
             LET st      == PlotAction_submit(env, order)
                 unready == get_unready_assisting_actions(action, assists, env.brk)
             IN  /\ \A p \in unready :
                       /\ ~st.assists[p].exists
                       /\ \A attr \in ResourceAttrs :
                             st.balance[p][attr] = balance[p][attr] + assists[p][attr]
                 /\ \A p \in Assistants :
                       st.assists[p].exists => st.assists[p].date_submitted
                 /\ \A p \in Participants \ unready : st.balance[p] = balance[p]

\* a Draft with an assist that is ready and one that has a story but not its
\* fields, whose submit is accepted: the first stays, stamped, the second is
\* deleted
C24_Witness ==
    /\ action.exists /\ action.status = DRAFT
    /\ \E env \in Envs, order \in Orders(assisting_actions(assists)) :
          /\ Rejection(env) = "none"
          /\ \E p \in get_unready_assisting_actions(action, assists, env.brk) :
                assists[p].actions /\ ~PlotAction_submit(env, order).assists[p].exists
          /\ \E q \in assisting_actions(assists) :
                /\ ~assists[q].date_submitted
                /\ PlotAction_submit(env, order).assists[q].date_submitted

RollTypes == {"silver", "military", "economic", "social"}

CapOf(a, attr) ==
    CASE attr = "silver"   -> a.max_points_silver
      [] attr = "military" -> a.max_points_military
      [] attr = "economic" -> a.max_points_economic
      [] attr = "social"   -> a.max_points_social

DivisorOf(a, attr) ==
    CASE attr = "silver"   -> a.silver_divisor
      [] attr = "military" -> a.military_divisor
      [] attr = "economic" -> a.economic_divisor
      [] attr = "social"   -> a.social_divisor

\* min(cap, ceil(sum of the assists' amounts / divisor)) plus the owner's own
Capped(attr) ==
    Min(CapOf(action, attr),
        Ceil(HeldBelow(attr, NumAssistants), DivisorOf(action, attr)))
    + action[attr]

\* the assists' roll values as they count towards the total
AssistRoll ==
    get_value_from_assists(assists, "roll_value", action.assist_divisor,
                           action.max_points_assists, 0)

\* C26: whatever the counters, caps and divisors, a cap of 0 included, the
\* total roll value is the owner's roll value, the flat modifier and the
\* assists' roll contribution, plus for each of silver, military, economic
\* and social the capped and rounded-up share of the assists' amounts and
\* the owner's own amount in full.
C26_ResourceContribution ==
    action.exists =>
       total_roll_value(action, assists)
          = action.roll_value + action.additional_modifiers + AssistRoll
            + Capped("silver") + Capped("military")
            + Capped("economic") + Capped("social")

\* --------------------------------------------------------------------- C27
\* the assist rows with their roll values left out
WithoutRolls == [p \in DOMAIN assists |-> [assists[p] EXCEPT !.roll_value = 0]]

\* C27: what the assists' roll values add to the total roll value is
\* min(max_points_assists, ceil(sum of the assists' roll values /
\* assist_divisor)): the quotient is rounded up (a sum of 10 with divisor 3
\* and cap 5 adds 4) and the share is never above the cap.
C27_AssistRollContribution ==
    action.exists =>
       LET sum     == HeldBelow("roll_value", NumAssistants)
           cap     == action.max_points_assists
           divisor == action.assist_divisor
           share   == total_roll_value(action, assists)
                      - total_roll_value(action, WithoutRolls)
       IN  /\ share <= cap
           /\ \E c \in 0..sum :
                 /\ c * divisor >= sum /\ (c - 1) * divisor < sum
                 /\ share = Min(cap, c)
           /\ (sum = 10 /\ divisor = 3 /\ cap = 5) => share = 4

\* two assists whose roll values add up to 10, with divisor 3 and cap 5,
\* and an outcome rolled from that total
C27_Witness ==
    /\ action.exists
    /\ action.roll_result = get_result_for_roll(total_roll_value(action, assists),
                                                action.target_rank)
    /\ action.target_rank # 0
    /\ Cardinality(assisting_actions(assists)) = 2
    /\ HeldBelow("roll_value", NumAssistants) = 10
    /\ action.assist_divisor = 3 /\ action.max_points_assists = 5
    /\ total_roll_value(action, assists)
       - total_roll_value(action, WithoutRolls) = 4

\* --------------------------------------------------------------------- C28
\* C28: roll_all on an action without a target rank is rejected and leaves
\* the stored roll result and every other field and row as they were.
C28_RollNeedsDifficulty ==
    (action.exists /\ action.target_rank = 0) =>
       /\ roll_all_error(action) # "none"
       /\ PlotAction_roll_all(State).action.roll_result = action.roll_result
       /\ PlotAction_roll_all(State) = State

\* an action that was rolled and then lost its target rank, while its total
\* is no longer the one of the stored result: the roll is rejected and the
\* old result stays
C28_Witness ==
    /\ action.exists /\ action.target_rank = 0
    /\ action.roll_result # NoResult
    /\ action.roll_result.total # total_roll_value(action, assists)
    /\ PlotAction_roll_all(State).action.roll_result = action.roll_result

\* --------------------------------------------------------------------- C29
\* C29: with a target rank set and the counters, assists and modifiers left
\* alone, a second roll_all leaves what the first left: the result is
\* computed again from the same total and written over the stored one, and
\* the total roll value is the same after a roll as before it.
C29_RollTwice ==
    (action.exists /\ action.target_rank # 0) =>
       LET once  == PlotAction_roll_all(State)
           twice == PlotAction_roll_all(once)
       IN  /\ twice = once
           /\ once.action.roll_result =
                 get_result_for_roll(total_roll_value(action, assists),
                                     action.target_rank)
           /\ total_roll_value(once.action, once.assists)
                 = total_roll_value(action, assists)

\* an action that holds the result of an earlier roll for another total
\* (an assist has left since) and is rolled again, twice
C29_Witness ==
    /\ action.exists /\ action.target_rank # 0
    /\ action.roll_result # NoResult
    /\ action.roll_result.total > total_roll_value(action, assists)
    /\ PlotAction_roll_all(State) # State
    /\ PlotAction_roll_all(PlotAction_roll_all(State)) = PlotAction_roll_all(State)

\* --------------------------------------------------------------------- C30
\* C30: invite is rejected and creates no row when the participant has an
\* assist on the action already, is the owner, the action has no plot, or
\* the plot is a crisis and the participant is no active member of the
\* action's org; an accepted invite gives a participant without a row one
\* row, so no participant has two and the owner is never an assist of the
\* owner's own action.
C30_InviteOncePerParticipant ==
    action.exists =>
       /\ ~assists[Owner].exists
       /\ \A p \in Participants, member \in BOOLEAN :
             LET st == PlotAction_invite(p, member) IN
             /\ (\/ assists[p].exists
                 \/ p = Owner
                 \/ ~plot.exists
                 \/ plot.usage = CRISIS /\ ~member)
                => (invite_error(p, member) # "none" /\ st = State)
             /\ st # State =>
                   /\ ~assists[p].exists /\ p # Owner
                   /\ st.assists = [assists EXCEPT ![p] = NewAssist]
                   /\ st.action = action /\ st.balance = balance

\* a crisis action with an assist that has written its story: inviting the
\* same participant again, the owner, or one who is no member is rejected,
\* inviting another member is accepted
C30_Witness ==
    /\ action.exists /\ plot.exists /\ plot.usage = CRISIS
    /\ \E p, q \in Assistants :
          /\ assists[p].exists /\ assists[p].actions
          /\ invite_error(p, TRUE) = "already invited"
          /\ PlotAction_invite(p, TRUE) = State
          /\ invite_error(Owner, TRUE) = "owner"
          /\ invite_error(q, FALSE) = "not a member"
          /\ PlotAction_invite(q, TRUE).assists[q].exists

\* ---------------------------------------------------------------- C31
\* the requirement rows of the action that exist
Existing(reqs) == {row \in DOMAIN reqs : reqs[row].exists}

\* the rows met in a state: the handler's result or the stored rows
Met(st) ==
    {row \in Existing(st.requirements) :
        check_requirement_met(row, st.requirements, st.action, st.assists)}

\* C31: a requirement for a clue, revelation, skill node, spell or item is
\* met exactly when its fulfilled_by marker is set, one for an event exactly
\* when its rfr reference is set, one for forces exactly when orders exist
\* for the action; no contribution of a resource amount, taken or refused,
\* changes which of these requirements are met.
C31_MetByMarker ==
    /\ \A row \in Existing(requirements) :
          LET met == row \in Met(State) IN
          /\ requirement_type(row) \in FK_TYPES
                => (met <=> requirements[row].fulfilled_by)
          /\ requirement_type(row) = EVENT => (met <=> requirements[row].rfr # 0)
          /\ requirement_type(row) = FORCES => (met <=> OrdersExist(action))
    /\ \A who \in Contributors, value \in 0..MaxValue :
          Record(who).exists =>
             LET st == AbstractAction_add_required_resource(who, "silver", value, "open")
             IN  {row \in Met(st) : requirement_type(row) \notin RESOURCE_TYPES}
                    = {row \in Met(State) : requirement_type(row) \notin RESOURCE_TYPES}

\* a clue is asked for and handed in, silver is asked for and paid
C31_Witness ==
    /\ \E e \in Entities :
          /\ requirements[RowOf(CLUE, e)].exists
          /\ requirements[RowOf(CLUE, e)].fulfilled_by
          /\ RowOf(CLUE, e) \in Met(State)
    /\ requirements[SILVER].exists
    /\ total_silver(action, assists) > 0

\* ---------------------------------------------------------------- C32
\* the existing rows of one requirement type
RowsOfType(reqs, t) == {row \in Existing(reqs) : requirement_type(row) = t}

\* C32: asking again for a resource, for forces or for an event leaves the
\* action with exactly one requirement of that type, which carries the
\* amount and rate, or the text, of the latest call; asking again for the
\* same clue, revelation, skill node, spell or item leaves the rows as they
\* are; asking for another entity of the same type adds a row of its own.
\* No call touches a row of another key.
C32_OneRowPerKey ==
    /\ \A t \in KeyedByType, value \in 1..MaxValue, max_rate \in 0..MaxRate :
          LET st == PlotAction_add_action_requirement(t, value, max_rate) IN
          /\ RowsOfType(st.requirements, t) = {t}
          /\ t \in RESOURCE_TYPES =>
                /\ st.requirements[t].total_required_amount = value
                /\ st.requirements[t].max_rate = max_rate
          /\ t \in DESCRIPTION_TYPES => st.requirements[t].requirement_text = value
          /\ \A row \in DOMAIN requirements \ {t} :
                st.requirements[row] = requirements[row]
    /\ \A t \in FK_TYPES, e \in Entities :
          LET st == PlotAction_add_action_requirement(t, e, 0) IN
          /\ RowsOfType(st.requirements, t)
                = RowsOfType(requirements, t) \cup {RowOf(t, e)}
          /\ requirements[RowOf(t, e)].exists => st.requirements = requirements
          /\ \A row \in DOMAIN requirements \ {RowOf(t, e)} :
                st.requirements[row] = requirements[row]

\* silver was asked for twice, the second time for the larger amount, and
\* the action has the one row
C32_Witness ==
    /\ left.reqs = 0
    /\ Existing(requirements) = {SILVER}
    /\ requirements[SILVER].total_required_amount = MaxValue
    /\ requirements[SILVER].max_rate = MaxRate
    /\ PlotAction_add_action_requirement(SILVER, 1, 0).requirements[SILVER]
          .total_required_amount = 1

\* ---------------------------------------------------------------- C33
\* C33: a call of add_required_resource for a requirement that is already
\* met is refused: nothing is paid, no counter moves and no notice is sent;
\* a call that is taken sends exactly one completion notice when it leaves
\* its requirement met and none when it leaves it unmet; it is only taken
\* for an unmet requirement and makes no other requirement met.
C33_CompletionNotice ==
    \A who \in Contributors, r_type \in RequirementNames, value \in 0..MaxValue :
       Record(who).exists =>
          LET row == requirement_row(get_choice_constant_from_string(r_type), value)
              err == add_required_resource_error(who, r_type, value, "open")
              st  == AbstractAction_add_required_resource(who, r_type, value, "open")
              n   == inform_action_requirement_complete(who, r_type, value, "open")
          IN  /\ row \in Met(State) => (err # "none" /\ st = State /\ n = 0)
              /\ err # "none" => (st = State /\ n = 0)
              /\ err = "none" =>
                    /\ row \in Existing(requirements) \ Met(State)
                    /\ Met(st) \ Met(State) \subseteq {row}
                    /\ row \in Met(st) => n = 1
                    /\ row \notin Met(st) => n = 0

\* silver is asked for, paid in two parts by two participants, the second
\* of which completes it; a third part is refused as already met
C33_Witness ==
    /\ requirements[SILVER].exists
    /\ requirements[SILVER].total_required_amount = 2
    /\ total_silver(action, assists) = 2
    /\ action.silver = 1
    /\ SILVER \in Met(State)
    /\ \E p \in Invited :
          /\ assists[p].exists /\ assists[p].actions
          /\ add_required_resource_error(p, "silver", 1, "open") = "already met"
          /\ inform_action_requirement_complete(p, "silver", 1, "open") = 0

\* ---------------------------------------------------------------- C34
\* C34: a submit of a Draft whose plot is marked resolved, or is past its
\* end date, is rejected whatever else holds: the action stays the Draft it
\* was, without a submission timestamp, and is not moved to NeedsGMInput.
C34_ClosedPlotKeepsDraft ==
    (action.exists /\ action.status = DRAFT /\ plot.exists) =>
       \A env \in Envs, order \in Orders(Attached) :
          env.plot # "open" =>
             LET st == PlotAction_submit(env, order) IN
             /\ Rejection(env) # "none"
             /\ st.action = action
             /\ st.action.status = DRAFT
             /\ ~st.action.date_submitted

\* a written Draft of a plot, warned about once, that a submit would now be
\* taken for if the plot were open, and is refused for because it is not
C34_Witness ==
    /\ action.exists /\ action.status = DRAFT /\ plot.exists /\ prompted
    /\ \E p \in Attached : TRUE
    /\ Rejection([brk |-> FALSE, plot |-> "open", others |-> "none"]) = "none"
    /\ Rejection([brk |-> FALSE, plot |-> "resolved", others |-> "none"]) = "resolved"
    /\ Rejection([brk |-> FALSE, plot |-> "expired", others |-> "none"]) = "deadline"

\* ---------------------------------------------------------------- C35
\* C35: while an action that was submitted before is NeedsPlayerInput with
\* every requirement met, an accepted submit marks the record that submits,
\* the action or an assist, as no longer editable, and the submit after
\* which no record is editable leaves the action NeedsGM; for an action
\* without assists that is the owner's first accepted submit.
C35_ResubmitReturnsToReview ==
    (/\ action.exists /\ action.status = NEEDS_PLAYER /\ action.date_submitted
     /\ check_requirement_errors(requirements, action, assists) = "none") =>
       /\ \A env \in Envs, order \in Orders(assisting_actions(assists)) :
             Rejection(env) = "none" =>
                LET st == PlotAction_submit(env, order) IN
                /\ ~st.action.editable
                /\ assisting_actions(st.assists) = {} => st.action.status = NEEDS_GM
                /\ all_editable(st.action, st.assists) = {}
                      => st.action.status = NEEDS_GM
       /\ \A p \in assisting_actions(assists), brk \in BOOLEAN :
             Abstract_raise_submission_errors(assists[p], action, brk) = "none" =>
                LET st == PlotActionAssistant_submit(p, brk) IN
                /\ ~st.assists[p].editable
                /\ all_editable(st.action, st.assists) = {}
                      => st.action.status = NEEDS_GM

\* ---------------------------------------------------------------- C36
\* C36: whatever contributions, submits, publications and cancels came
\* before, a cancel of an action that is already Cancelled or Published
\* included, no participant has been credited more of a resource than was
\* debited from them: no ledger balance is above what it was at the start.
C36_ResourcesConserved ==
    \A p \in Participants, attr \in ResourceAttrs :
       balance[p][attr] - InitBalance <= 0

\* ---------------------------------------------------------------- C37
\* C37: an action that has no submission timestamp, is no free action and
\* is not for a crisis is not given its timestamp by a submit in an episode
\* in which its owner has another action that was submitted and is not
\* Cancelled, whether it is still Draft or a requirement has moved it to
\* NeedsPlayerInput before its first submit.
C37_OneSubmissionPerPeriod ==
    (/\ action.exists /\ ~action.date_submitted /\ ~action.free_action
     /\ ~action.org /\ ~(plot.exists /\ plot.usage = CRISIS)) =>
       \A env \in Envs, order \in Orders(assisting_actions(assists)) :
          env.others = "submitted"
          => ~PlotAction_submit(env, order).action.date_submitted

\* ---------------------------------------------------------------- C38
\* C38: a Cancelled action has no assist rows, in every state: cancel has
\* deleted them all and nothing, an invite in particular, attaches one to
\* it afterwards.
C38_CancelledHasNoAssists ==
    (action.exists /\ action.status = CANCELLED)
    => assisting_actions(assists) = {}

\* ---------------------------------------------------------------- C39
\* C39: for an action with a plot that is marked resolved or past its end
\* date, a submit in NeedsPlayerInput is judged as if the plot were open,
\* and is taken when the other checks pass; a submit in any other status is
\* rejected and leaves the action as it was.
C39_ClosedPlotOnlySkippedForEdits ==
    (action.exists /\ plot.exists) =>
       \A env \in Envs, order \in Orders(assisting_actions(assists)) :
          env.plot # "open" =>
             LET st == PlotAction_submit(env, order) IN
             IF action.status = NEEDS_PLAYER
             THEN /\ Rejection(env) = Rejection([env EXCEPT !.plot = "open"])
                  /\ Rejection(env) = "none" => st.action.date_submitted
             ELSE /\ Rejection(env) # "none"
                  /\ st.action = action

\* an action in NeedsPlayerInput, submitted before, with its requirement
\* met, whose submit is taken although the plot is past its end date
C39_Witness ==
    /\ action.exists /\ plot.exists
    /\ action.status = NEEDS_PLAYER /\ action.date_submitted
    /\ \E t \in Types : requirements[t].exists
    /\ Rejection([brk |-> TRUE, plot |-> "expired", others |-> "none"]) = "none"
    /\ Rejection([brk |-> FALSE, plot |-> "resolved", others |-> "none"]) = "none"

\* ---------------------------------------------------------------- C40
\* C40: Plot.create_update publishes a PendingPublish action that has no
\* beat and gives it the new update as beat, gives every Published or
\* Cancelled action that has no beat the new update as beat, leaves every
\* other action as it is, and puts no action it has handled on the list of
\* a later create_update.
C40_UpdateHandlesActionOnce ==
    (action.exists /\ plot.exists) =>
       LET update == plot.updates + 1
           st     == Plot_create_update(update)
       IN  /\ create_update_list(action) = "pending"
                 => (st.action.status = PUBLISHED /\ st.action.beat = update)
           /\ create_update_list(action) = "already_published"
                 => (st.action.status = action.status /\ st.action.beat = update)
           /\ create_update_list(action) = "none" => st = State
           /\ create_update_list(st.action) = "none"
====
